---------------------------- MODULE Spec2Model ----------------------------
(***************************************************************************)
(* A model of the temporal simulation and execution engine of the quant    *)
(* backtester: the event queue, the order state machine, the execution     *)
(* simulator, the point-in-time bar reader and the backtest driver.        *)
(*                                                                         *)
(* Time is an integer (an instant in UTC).  Prices are integers in units   *)
(* one decimal digit finer than the grid round(x, 10) rounds to.           *)
(***************************************************************************)
EXTENDS Integers, Sequences, FiniteSets, TLC

None == "None"

\* An optional number (Optional[float], Optional[datetime] as an instant):
\* Nil is Python's None, Some(v) a value.
Nil == <<>>
Some(v) == <<v>>
Val(x) == x[1]

Min2(a, b) == IF a <= b THEN a ELSE b
Max2(a, b) == IF a >= b THEN a ELSE b

VARIABLES
    heap,           \* EventQueue._heap: a list of <<ts, int(type), seq, evt>> entries
    seq_counter,    \* EventQueue._seq_counter
    q_call,         \* the last EventQueue method called
    popped,         \* the events the pop() calls returned since the last push or clear
    order,          \* an Order object (orders.py)
    o_call,         \* the last Order method called
    o_pre,          \* the Order's fields when that method was entered
    o_arg,          \* the argument it was called with, if it takes one
    by_symbol,      \* BarsStore.by_symbol: symbol_id -> list of bars
    pit_req,        \* the arguments of the last PITDataReader.get_bars call
    pit_out,        \* its outcome: <<"ok", bars>> or <<the exception raised>>
    sim_in,         \* an ExecutionSimulator's configuration and simulate()'s arguments
    sim_out,        \* simulate()'s outcome: <<"ok", fills, cost>> or <<the exception raised>>
    symbols_table,  \* the rows of the symbols table (symbols_repository.py)
    fx_table,       \* the rows of the FX table (fx_repository.py)
    run_args,       \* run_backtest's arguments: start, end, base_currency
    pc,             \* where run_backtest stands
    symbols_by_id,  \* run_backtest: symbols_by_id (venue_by_symbol is its exchange column)
    times,          \* run_backtest: times
    bars_at_time,   \* run_backtest: bars_at_time
    idx,            \* how many of times the loop has completed
    ctx_now,        \* ctx.now
    api_orders,     \* ctx.order_api._orders
    api_canceled,   \* ctx.order_api._canceled
    pending,        \* run_backtest: the orders of pending not yet processed
    match,          \* the order loop's locals: order, bar_for_symbol, sym_meta, fills
    fx_used,        \* the FX rows the last total_value_eur call read
    portfolio,      \* the Portfolio: cash_by_ccy and positions
    equity_points,  \* run_backtest: equity_points
    orders_out,     \* run_backtest: orders_out
    fills_out,      \* run_backtest: fills_out
    positions_out,  \* run_backtest: positions_out
    calls,          \* the strategy callbacks entered so far, each with ctx.now
    n_submitted,    \* how many orders the strategy has submitted in this run
    wall_clock,     \* what datetime.now() returns to this run of run_backtest
    run_no,         \* which execution of run_backtest this is: the first or the second
    script,         \* what the strategy did in the first execution and has yet to repeat
    first_run,      \* the logs the first execution left, once it is over
    fold_in,        \* the arguments of a fold generator (research/validation.py)
    fold_out,       \* its outcome: <<"ok", folds>> or <<the exception raised>>
    folio,          \* a Portfolio object on its own (portfolio.py)
    pf_pre,         \* that Portfolio when its last method was entered
    pf_call,        \* the last Portfolio method called, with its arguments
    pf_ret,         \* what that call returned
    pf_n,           \* how many calls the Portfolio has served
    corp_actions,   \* the list of CorporateAction rows handed to process_actions_for_symbol
    act_log,        \* the calls a Portfolio served, fills and corporate actions, in order
    fx_req,         \* an FX lookup or a valuation asked for: the function and its arguments
    fx_out,         \* its outcome: <<"ok", value>> or <<the exception raised>>
    walk,           \* make_walk_forward_folds run step by step: where it stands, i and folds
    clock_exchanges, \* Clock._exchanges
    clock_call,     \* the last Clock method called: its argument, the queue before, its outcome
    pnl_total,      \* the caller's sum of the realized P&L that apply_fill returned
    broker,         \* a PaperBroker: _orders, _updates and its simulator's settings
    broker_call,    \* the last PaperBroker method called: its argument, the broker before, its outcome
    data_api,       \* a _DataAPI: _symbol_cache, and the last get() call with its outcome
    search          \* run_hyperparameter_search: its tasks, each trial's progress, the paths written

queueVars == <<heap, seq_counter, q_call, popped>>
orderVars == <<order, o_call, o_pre, o_arg>>
storeVars == <<by_symbol>>
pitVars == <<pit_req, pit_out>>
simVars == <<sim_in, sim_out>>
dbVars == <<symbols_table, fx_table>>
runVars == <<run_args, pc, symbols_by_id, times, bars_at_time, idx, ctx_now, api_orders,
             api_canceled, pending, match, fx_used, portfolio, equity_points, orders_out, fills_out,
             positions_out, calls, n_submitted>>
twiceVars == <<wall_clock, run_no, script, first_run>>
foldVars == <<fold_in, fold_out>>
pfVars == <<folio, pf_pre, pf_call, pf_ret, pf_n>>
actVars == <<corp_actions, act_log>>
fxVars == <<fx_req, fx_out>>
walkVars == <<walk>>
clockVars == <<clock_exchanges, clock_call>>
ledgerVars == <<pnl_total>>
brokerVars == <<broker, broker_call>>
dataVars == <<data_api>>
searchVars == <<search>>
lastVars == <<ledgerVars, brokerVars, dataVars, searchVars>>
lateVars == <<actVars, fxVars, walkVars, clockVars, lastVars>>
moreVars == <<twiceVars, foldVars, pfVars, lateVars>>
vars == <<queueVars, orderVars, storeVars, pitVars, simVars, dbVars, runVars, moreVars>>

\* what the methods of one component leave alone: the other components
notQueue == <<orderVars, storeVars, pitVars, simVars, dbVars, runVars, moreVars>>
notOrder == <<queueVars, storeVars, pitVars, simVars, dbVars, runVars, moreVars>>
notPit == <<queueVars, orderVars, simVars, dbVars, runVars, moreVars>>
notSim == <<queueVars, orderVars, storeVars, pitVars, dbVars, runVars, moreVars>>
notRun == <<queueVars, orderVars, pitVars, simVars, moreVars>>
notPortfolio == <<queueVars, orderVars, storeVars, pitVars, simVars, dbVars, runVars,
                  twiceVars, foldVars, lateVars>>
notActions == <<queueVars, orderVars, storeVars, pitVars, simVars, dbVars, runVars,
                twiceVars, foldVars, fxVars, walkVars, clockVars, lastVars>>
notFx == <<queueVars, orderVars, storeVars, pitVars, simVars, runVars, twiceVars, foldVars,
           pfVars, actVars, walkVars, clockVars, lastVars>>
notWalk == <<queueVars, orderVars, storeVars, pitVars, simVars, dbVars, runVars, twiceVars,
             pfVars, actVars, fxVars, clockVars, lastVars>>
notClock == <<orderVars, storeVars, pitVars, simVars, dbVars, runVars, twiceVars, foldVars,
              pfVars, actVars, fxVars, walkVars, lastVars>>
notLedger == <<queueVars, orderVars, storeVars, pitVars, simVars, dbVars, runVars, twiceVars,
               foldVars, actVars, fxVars, walkVars, clockVars, brokerVars, dataVars, searchVars>>
notBroker == <<queueVars, orderVars, storeVars, pitVars, simVars, dbVars, runVars, twiceVars,
               foldVars, pfVars, actVars, fxVars, walkVars, clockVars, ledgerVars, dataVars,
               searchVars>>
notData == <<queueVars, orderVars, storeVars, pitVars, simVars, dbVars, runVars, twiceVars,
             foldVars, pfVars, actVars, fxVars, walkVars, clockVars, ledgerVars, brokerVars,
             searchVars>>
notSearch == <<queueVars, orderVars, storeVars, pitVars, simVars, dbVars, runVars, twiceVars,
               foldVars, pfVars, actVars, fxVars, walkVars, clockVars, ledgerVars, brokerVars,
               dataVars>>

(***************************************************************************)
(* Bounds of the model.                                                    *)
(***************************************************************************)
MaxTs == 2          \* event timestamps are 1..MaxTs
MaxPush == 4        \* pushes between two clear() calls
MaxQty == 3         \* order quantities are 1..MaxQty
MaxFillArg == 3     \* add_fill arguments are 0..MaxFillArg
MaxSymbol == 2      \* symbol ids are 1..MaxSymbol
MaxTime == 2        \* bar timestamps (UTC instants) are 1..MaxTime
MaxRows == 2        \* rows given to BarsStore.from_rows
MaxLiq == 2         \* available_liquidity is 0..MaxLiq
MaxPriceStep == 3   \* quote and limit prices are PriceBase + PriceStride * (0..MaxPriceStep)
PriceBase == 96
PriceStride == 3
MaxOrders == 2      \* orders a strategy submits in one run
MaxWall == 2        \* wall-clock readings datetime.now() can return
MaxStamp == 5       \* timestamps a fold generator's store can hold
MaxSplits == 3      \* n_splits
MaxWindow == 2      \* train_window, test_window and step
MaxFills == 3       \* apply_fill calls on one Portfolio
MaxCalls == 3       \* calls on one Portfolio, fills and corporate actions together
MaxClockPush == 2   \* Clock calls are made while the queue has served fewer pushes
MaxDate == 2        \* effective dates and asof are 1..MaxDate

(***************************************************************************)
(* engine/events.py                                                        *)
(***************************************************************************)
EventTypes == {"CLOCK", "BAR", "FX", "CORPORATE_ACTION"}

\* A plausible slip: BAR and FX ranked the other way round.
TypeRank_swapped(type) ==
    CASE type = "CLOCK" -> 0
      [] type = "BAR" -> 2
      [] type = "FX" -> 1
      [] type = "CORPORATE_ACTION" -> 3

\* class EventType(IntEnum): int(evt.type)
TypeRank(type) ==
    CASE type = "CLOCK" -> 0
      [] type = "BAR" -> 1
      [] type = "FX" -> 2
      [] type = "CORPORATE_ACTION" -> 3

\* Event(ts, type, payload, seq); the payload plays no part in the order
Event(ts, type, seq) == [ts |-> ts, type |-> type, seq |-> seq]

\* A plausible slip: at equal timestamp and type the later push wins.
TupleLt_lifo(a, b) ==
    \/ a[1] < b[1]
    \/ a[1] = b[1] /\ a[2] < b[2]
    \/ a[1] = b[1] /\ a[2] = b[2] /\ a[3] > b[3]

\* Python's comparison of the heap's tuples (ts, int(type), seq, evt): the
\* sequence numbers differ, so the event itself is never compared.
TupleLt(a, b) ==
    \/ a[1] < b[1]
    \/ a[1] = b[1] /\ a[2] < b[2]
    \/ a[1] = b[1] /\ a[2] = b[2] /\ a[3] < b[3]

\* heap[pos] with Python's positions, which start at 0
At(h, pos) == h[pos + 1]
Put(h, pos, item) == [h EXCEPT ![pos + 1] = item]

\* heapq._siftdown(heap, startpos, pos), the loop with newitem held aside
RECURSIVE SiftDownLoop(_, _, _, _)
SiftDownLoop(h, startpos, pos, newitem) ==
    IF pos > startpos
    THEN LET parentpos == (pos - 1) \div 2
             parent == At(h, parentpos)
         IN  IF TupleLt(newitem, parent)
             THEN SiftDownLoop(Put(h, pos, parent), startpos, parentpos, newitem)
             ELSE Put(h, pos, newitem)
    ELSE Put(h, pos, newitem)

SiftDown(h, startpos, pos) == SiftDownLoop(h, startpos, pos, At(h, pos))

\* heapq._siftup(heap, pos): bubble the smaller child up to a leaf, then
\* sift the held item down from there
RECURSIVE SiftUpLoop(_, _, _, _)
SiftUpLoop(h, startpos, pos, newitem) ==
    LET endpos == Len(h)
        childpos == 2 * pos + 1
    IN  IF childpos < endpos
        THEN LET rightpos == childpos + 1
                 c == IF rightpos < endpos /\ ~TupleLt(At(h, childpos), At(h, rightpos))
                      THEN rightpos ELSE childpos
             IN  SiftUpLoop(Put(h, pos, At(h, c)), startpos, c, newitem)
        ELSE SiftDown(Put(h, pos, newitem), startpos, pos)

SiftUp(h, pos) == SiftUpLoop(h, pos, pos, At(h, pos))

\* A plausible slip: the new item is appended and never sifted.
HeapPush_nosift(h, item) == Append(h, item)

\* heapq.heappush(heap, item)
HeapPush(h, item) == SiftDown(Append(h, item), 0, Len(h))

\* heapq.heappop(heap): <<the item returned, the heap left>>
HeapPop(h) ==
    LET lastelt == h[Len(h)]
        rest == SubSeq(h, 1, Len(h) - 1)
    IN  IF rest # <<>>
        THEN <<rest[1], SiftUp(Put(rest, 0, lastelt), 0)>>
        ELSE <<lastelt, rest>>

QueueInit ==
    /\ heap = <<>>
    /\ seq_counter = 0
    /\ q_call = None
    /\ popped = <<>>

\* EventQueue.push(ts, type, payload)
Push(ts, type) ==
    /\ seq_counter < MaxPush
    /\ LET evt == Event(ts, type, seq_counter)
       IN  heap' = HeapPush(heap, <<evt.ts, TypeRank(evt.type), evt.seq, evt>>)
    /\ popped' = <<>>
    /\ seq_counter' = seq_counter + 1
    /\ q_call' = "push"
    /\ UNCHANGED notQueue

\* EventQueue.pop() on a non-empty queue
Pop ==
    /\ heap # <<>>
    /\ popped' = Append(popped, HeapPop(heap)[1][4])
    /\ heap' = HeapPop(heap)[2]
    /\ q_call' = "pop"
    /\ UNCHANGED <<seq_counter, notQueue>>

\* EventQueue.pop() on an empty queue raises IndexError
PopEmpty ==
    /\ heap = <<>>
    /\ q_call' = "pop_raised"
    /\ UNCHANGED <<heap, seq_counter, popped, notQueue>>

\* EventQueue.clear()
Clear ==
    /\ heap' = <<>>
    /\ seq_counter' = 0
    /\ q_call' = "clear"
    /\ popped' = <<>>
    /\ UNCHANGED notQueue

(***************************************************************************)
(* engine/orders.py                                                        *)
(***************************************************************************)
OrderStates == {"NEW", "WORKING", "PARTIALLY_FILLED", "FILLED", "CANCELED", "REJECTED"}
Terminal == {"FILLED", "CANCELED", "REJECTED"}
TimeInForce == {"DAY", "IOC", "FOK"}
OrderSide == {"BUY", "SELL"}
OrderType == {"MKT", "LMT"}

\* Order(...): state NEW, filled_quantity 0
NewOrder(id, symbol_id, side, quantity, type, tif, limit_price) ==
    [id |-> id, symbol_id |-> symbol_id, side |-> side, quantity |-> quantity,
     type |-> type, tif |-> tif, limit_price |-> limit_price,
     state |-> "NEW", filled_quantity |-> 0]

\* Order.acknowledge
acknowledge(o) ==
    IF o.state # "NEW" THEN o ELSE [o EXCEPT !.state = "WORKING"]

\* A plausible slip: the guard forgets that FILLED is terminal.
cancel_unguarded(o) ==
    IF o.state \in {"CANCELED", "REJECTED"} THEN o ELSE [o EXCEPT !.state = "CANCELED"]

\* Order.cancel
cancel(o) ==
    IF o.state \in {"FILLED", "CANCELED", "REJECTED"} THEN o
    ELSE [o EXCEPT !.state = "CANCELED"]

\* Order.reject
reject(o) ==
    IF o.state \in {"FILLED", "CANCELED", "REJECTED"} THEN o
    ELSE [o EXCEPT !.state = "REJECTED"]

\* A plausible slip: the fill is not clamped to the order's quantity.
add_fill_noclamp(o, qty) ==
    IF o.state \in {"CANCELED", "REJECTED", "FILLED"} THEN o
    ELSE LET f == o.filled_quantity + qty
         IN  IF f >= o.quantity
             THEN [o EXCEPT !.filled_quantity = f, !.state = "FILLED"]
             ELSE [o EXCEPT !.filled_quantity = f, !.state = "PARTIALLY_FILLED"]

\* Order.add_fill
add_fill(o, qty) ==
    IF o.state \in {"CANCELED", "REJECTED", "FILLED"} THEN o
    ELSE LET f == o.filled_quantity + qty
         IN  IF f >= o.quantity
             THEN [o EXCEPT !.filled_quantity = o.quantity, !.state = "FILLED"]
             ELSE [o EXCEPT !.filled_quantity = f, !.state = "PARTIALLY_FILLED"]

\* A plausible slip: IOC handled like FOK, the partial fill rolled back.
handle_end_of_cycle_iocreset(o, liquidity_available) ==
    IF /\ o.tif \in {"IOC", "FOK"}
       /\ o.state \in {"NEW", "WORKING", "PARTIALLY_FILLED"}
       /\ o.filled_quantity < o.quantity
    THEN cancel([o EXCEPT !.filled_quantity = 0])
    ELSE o

\* A plausible slip: FOK handled like IOC, the partial fill left standing.
handle_end_of_cycle_norollback(o, liquidity_available) ==
    IF /\ o.tif \in {"IOC", "FOK"}
       /\ o.state \in {"NEW", "WORKING", "PARTIALLY_FILLED"}
       /\ o.filled_quantity < o.quantity
    THEN cancel(o)
    ELSE o

\* A plausible slip: the time in force is not looked at, so that a DAY
\* order is canceled like an IOC order.
handle_end_of_cycle_anytif(o, liquidity_available) ==
    IF /\ o.state \in {"NEW", "WORKING", "PARTIALLY_FILLED"}
       /\ o.filled_quantity < o.quantity
    THEN IF o.tif = "FOK" THEN cancel([o EXCEPT !.filled_quantity = 0]) ELSE cancel(o)
    ELSE o

\* Order.handle_end_of_cycle
handle_end_of_cycle(o, liquidity_available) ==
    LET afterIoc ==
            IF /\ o.tif = "IOC"
               /\ o.state \in {"NEW", "WORKING", "PARTIALLY_FILLED"}
               /\ o.filled_quantity < o.quantity
            THEN cancel(o)
            ELSE o
    IN  IF /\ afterIoc.tif = "FOK"
           /\ afterIoc.state \in {"NEW", "WORKING", "PARTIALLY_FILLED"}
           /\ afterIoc.filled_quantity < afterIoc.quantity
        THEN cancel([afterIoc EXCEPT !.filled_quantity = 0])
        ELSE afterIoc

OrderInit ==
    /\ \E quantity \in 1..MaxQty, tif \in TimeInForce :
          order = NewOrder("o1", 1, "BUY", quantity, "MKT", tif, None)
    /\ o_call = None
    /\ o_pre = None
    /\ o_arg = Nil

\* a method is called with the argument arg (Nil: it takes none)
CalledWith(name, arg, result) ==
    /\ o_pre' = order
    /\ order' = result
    /\ o_call' = name
    /\ o_arg' = arg
    /\ UNCHANGED notOrder

Called(name, result) == CalledWith(name, Nil, result)

Acknowledge == Called("acknowledge", acknowledge(order))
Cancel == Called("cancel", cancel(order))
Reject == Called("reject", reject(order))
AddFill == \E qty \in 0..MaxFillArg : CalledWith("add_fill", Some(qty), add_fill(order, qty))
HandleEndOfCycle ==
    \E liquidity_available \in 0..MaxQty :
        CalledWith("handle_end_of_cycle", Some(liquidity_available),
                   handle_end_of_cycle(order, liquidity_available))

(***************************************************************************)
(* data/pit_reader.py                                                      *)
(***************************************************************************)
Symbols == 1..MaxSymbol
Times == 1..MaxTime

\* BarRow; open, high, low and the session date are carried nowhere
BarRow(ts, symbol_id, close, volume) ==
    [ts |-> ts, symbol_id |-> symbol_id, close |-> close, volume |-> volume]

\* A datetime: a wall-clock reading and its tzinfo: None (naive), UTC or
\* a zone one hour ahead of UTC.  NoDateTime is an argument left None.
DateTime(wall, tzinfo) == [wall |-> wall, tzinfo |-> tzinfo]
TzInfos == {None, "UTC", "UTC+1"}
NoDateTime == DateTime(0, "omitted")
UtcOffset(tzinfo) == IF tzinfo = "UTC+1" THEN 1 ELSE 0

\* A plausible slip: the reading is taken as it stands, its offset dropped.
ensure_utc_wall(dt) == dt.wall

\* PITDataReader._ensure_utc, as the instant it denotes: a naive reading is
\* taken as UTC, an aware one is converted
ensure_utc(dt) == IF dt.tzinfo = None THEN dt.wall ELSE dt.wall - UtcOffset(dt.tzinfo)

\* the sort keys the code uses: lambda x: x.ts and lambda x: (x.symbol_id, x.ts)
KeyLt(key, a, b) ==
    IF key = "ts" THEN a.ts < b.ts
    ELSE \/ a.symbol_id < b.symbol_id
         \/ a.symbol_id = b.symbol_id /\ a.ts < b.ts

\* list.sort(key=...): stable, here as an insertion sort
RECURSIVE InsertByKey(_, _, _)
InsertByKey(lst, r, key) ==
    IF lst = <<>> THEN <<r>>
    ELSE IF KeyLt(key, r, lst[Len(lst)])
         THEN Append(InsertByKey(SubSeq(lst, 1, Len(lst) - 1), r, key), lst[Len(lst)])
         ELSE Append(lst, r)

RECURSIVE SortByKey(_, _)
SortByKey(lst, key) ==
    IF lst = <<>> THEN <<>>
    ELSE InsertByKey(SortByKey(SubSeq(lst, 1, Len(lst) - 1), key), lst[Len(lst)], key)

\* BarsStore.from_rows: group by symbol in row order, then sort each by ts
from_rows(rows) ==
    [sym \in {rows[i].symbol_id : i \in DOMAIN rows} |->
        SortByKey(SelectSeq(rows, LAMBDA r : r.symbol_id = sym), "ts")]

\* A plausible slip: the upper bound of the range is not applied.
get_between_noend(store, symbol_id, start, end) ==
    LET data == IF symbol_id \in DOMAIN store THEN store[symbol_id] ELSE <<>>
    IN  SelectSeq(data, LAMBDA r : ~(start # Nil /\ r.ts < Val(start)))

\* BarsStore.get_between
get_between(store, symbol_id, start, end) ==
    LET data == IF symbol_id \in DOMAIN store THEN store[symbol_id] ELSE <<>>
    IN  SelectSeq(data, LAMBDA r : /\ ~(start # Nil /\ r.ts < Val(start))
                                   /\ ~(end # Nil /\ r.ts > Val(end)))

\* PITDataReader.get_bars
get_bars(store, symbol_id, start, end, asof) ==
    LET asof_utc == ensure_utc(asof)
        start_utc == IF start # NoDateTime THEN Some(ensure_utc(start)) ELSE Nil
        end_utc == IF end # NoDateTime THEN Some(ensure_utc(end)) ELSE Nil
    IN  IF end_utc # Nil /\ Val(end_utc) > asof_utc
        THEN <<"ValueError">>
        ELSE LET end2 == IF end_utc = Nil THEN Some(asof_utc) ELSE end_utc
                 bars == get_between(store, symbol_id, start_utc, end2)
             IN  IF \E i \in DOMAIN bars : bars[i].ts > asof_utc
                 THEN <<"RuntimeError">>
                 ELSE <<"ok", bars>>

\* every list of at most n elements of S
RECURSIVE SeqsUpTo(_, _)
SeqsUpTo(S, n) ==
    IF n = 0 THEN {<<>>}
    ELSE LET shorter == SeqsUpTo(S, n - 1)
         IN  shorter \cup {Append(q, x) : q \in shorter, x \in S}

PitBars == {BarRow(ts, sym, 100, 10) : ts \in Times, sym \in Symbols}
PitDateTimes == {DateTime(wall, tzinfo) : wall \in Times, tzinfo \in TzInfos}

PitInit ==
    /\ \E rows \in SeqsUpTo(PitBars, MaxRows) : by_symbol = from_rows(rows)
    /\ \E symbol_id \in Symbols, start \in {NoDateTime} \cup {DateTime(w, None) : w \in Times},
          end \in {NoDateTime} \cup PitDateTimes, asof \in PitDateTimes :
           pit_req = [symbol_id |-> symbol_id, start |-> start, end |-> end, asof |-> asof]
    /\ pit_out = <<None>>

\* the call of PITDataReader.get_bars with the arguments drawn
GetBars ==
    /\ pit_out = <<None>>
    /\ pit_out' = get_bars(by_symbol, pit_req.symbol_id, pit_req.start, pit_req.end, pit_req.asof)
    /\ UNCHANGED <<by_symbol, pit_req, notPit>>

(***************************************************************************)
(* engine/execution.py                                                     *)
(*                                                                         *)
(* A price is an integer number of units; round(x, 10) rounds to a         *)
(* multiple of Grid units.  Between the quote and the rounding the code    *)
(* computes with halves, quarters and tenths of the spread: the model      *)
(* carries such a price as Fine times its value, which keeps it exact.     *)
(***************************************************************************)
Grid == 10          \* round(target, 10): units per 1e-10
Fine == 40          \* common denominator of urgency_k (quarters) and the multipliers (tenths)
ADV_CAP_NUM == 1    \* adv_cap_fraction: float = 0.1
ADV_CAP_DEN == 10
IMPACT_ALPHA_10 == 1    \* impact_alpha: float = 0.1, in tenths
OPEN_MULT_10 == 15      \* "OPEN": 1.5, in tenths
CLOSE_MULT_10 == 13     \* "CLOSE": 1.3
MID_MULT_10 == 10       \* "MID": 1.0
LIMIT_URGENCY_4 == 2    \* urgency_k = 0.5 for LIMIT, in quarters
MARKET_URGENCY_4 == 3   \* urgency_k = 0.75 otherwise

\* Quote(bid, ask)
Quote(bid, ask) == [bid |-> bid, ask |-> ask]
\* Fill(price, quantity)
Fill(price, quantity) == [price |-> price, quantity |-> quantity]

\* the largest r with r * r <= n
RECURSIVE ISqrtFrom(_, _)
ISqrtFrom(n, r) == IF (r + 1) * (r + 1) > n THEN r ELSE ISqrtFrom(n, r + 1)
ISqrt(n) == ISqrtFrom(n, 0)

\* The venue's zone: EXCHANGE_TZ.get("XNYS" if US, "XETR" if EU/DE/XETR,
\* else "XNYS")
VenueZone(venue) ==
    IF venue = "US" THEN "America/New_York"
    ELSE IF venue \in {"EU", "DE", "XETR"} THEN "Europe/Berlin"
    ELSE "America/New_York"

\* ExecutionSimulator._tod_bucket; ts is Nil or Some(<<hour, minute>>), the
\* reading of the venue's local clock at ts
tod_bucket(venue, ts) ==
    IF ts = Nil THEN "MID"
    ELSE LET hour == Val(ts)[1]
             minute == Val(ts)[2]
         IN  IF VenueZone(venue) = "America/New_York"
             THEN IF (hour = 9 /\ minute >= 30) \/ (hour = 10 /\ minute = 0) THEN "OPEN"
                  ELSE IF (hour = 15 /\ minute >= 30) \/ (hour = 16 /\ minute = 0) THEN "CLOSE"
                  ELSE "MID"
             ELSE IF hour = 9 /\ minute < 30 THEN "OPEN"
                  ELSE IF hour = 17 /\ minute >= 0 /\ minute < 30 THEN "CLOSE"
                  ELSE "MID"

\* self._tod_mults.get(bucket, 1.0), in tenths
TodMult10(bucket) ==
    CASE bucket = "OPEN" -> OPEN_MULT_10
      [] bucket = "CLOSE" -> CLOSE_MULT_10
      [] bucket = "MID" -> MID_MULT_10
      [] OTHER -> 10

\* min(max(target, quote.bid), quote.ask) on a price carried Fine-fold
Clamp(target, quote) == Min2(Max2(target, Fine * quote.bid), Fine * quote.ask)

\* "Respect limit constraints": lines 134-140
ClampLimit(target, o, quote) ==
    IF o.type = "LMT"
    THEN LET lim == Fine * Val(o.limit_price)
             t1 == IF o.side = "BUY" /\ target > lim THEN lim ELSE target
             t2 == IF o.side = "SELL" /\ t1 < lim THEN lim ELSE t1
         IN  Clamp(t2, quote)
    ELSE target

\* n with step * n nearest to x, a tie going to the even n (round)
RoundHalfEven(x, step) ==
    LET n == x \div step
        r == x % step
    IN  IF 2 * r < step THEN n
        ELSE IF 2 * r > step THEN n + 1
        ELSE IF n % 2 = 0 THEN n ELSE n + 1

\* round(target, 10) of a price carried Fine-fold: the nearest multiple of
\* Grid units, a tie going to the even multiple
Round10(target) == Grid * RoundHalfEven(target, Grid * Fine)

\* int(max(0, min(available_liquidity, self._cap * adv)))
AdvCap(cfg, symbol_id, available_liquidity) ==
    LET adv == IF cfg.adv = Nil THEN available_liquidity ELSE Val(cfg.adv)
    IN  Max2(0, Min2(available_liquidity, (cfg.cap_num * adv) \div cfg.cap_den))

\* ExecutionSimulator.simulate from line 104 on, the order being a MARKET
\* order or a LIMIT order with its price.  cfg holds the simulator's
\* settings: adv (self._adv.get(symbol), Nil when absent), cap_num/cap_den
\* (self._cap), sigma (self._sigma.get(symbol, 0.0)) and costs (self._costs).
simulate_priced(cfg, o, quote, venue, available_liquidity, ts) ==
    LET adv == IF cfg.adv = Nil THEN available_liquidity ELSE Val(cfg.adv)
        cap == AdvCap(cfg, o.symbol_id, available_liquidity)
        max_fillable == Min2(o.quantity, IF o.tif # "FOK" THEN cap ELSE o.quantity)
    IN  IF max_fillable <= 0 THEN <<"ok", <<>>, 0>>
        ELSE
        LET mid == (Fine \div 2) * (quote.bid + quote.ask)
            spread == quote.ask - quote.bid
            mult10 == TodMult10(tod_bucket(venue, ts))
            urgency4 == IF o.type = "LMT" THEN LIMIT_URGENCY_4 ELSE MARKET_URGENCY_4
            \* Fine * urgency_k * effective_spread
            edge == urgency4 * mult10 * spread
            \* Fine * sigma * sqrt(qty / adv) * alpha, the root to a quarter
            impact == (IF o.side = "BUY" THEN 1 ELSE -1) * cfg.sigma * IMPACT_ALPHA_10
                        * ISqrt((16 * Max2(max_fillable, 1)) \div Max2(adv, 1))
            impacted_mid == mid + impact
            target0 == impacted_mid + (IF o.side = "BUY" THEN edge ELSE -edge)
            target == ClampLimit(Clamp(target0, quote), o, quote)
        IN  IF o.tif = "FOK" /\ max_fillable < o.quantity
            THEN <<"ok", <<>>, 0>>
            ELSE LET fill_qty == IF o.tif # "IOC" THEN max_fillable
                                 ELSE Min2(max_fillable, available_liquidity)
                     fills == IF fill_qty > 0
                              THEN <<Fill(Round10(target), fill_qty)>> ELSE <<>>
                     filled == IF fill_qty > 0 THEN fill_qty ELSE 0
                     cost_total == IF cfg.costs # None /\ filled > 0
                                   THEN cfg.costs * filled ELSE 0
                 IN  <<"ok", fills, cost_total>>

\* A plausible slip: the limit price is looked for after the early return
\* for an order that nothing can fill.
simulate_capfirst(cfg, o, quote, venue, available_liquidity, ts) ==
    IF Min2(o.quantity, IF o.tif # "FOK" THEN AdvCap(cfg, o.symbol_id, available_liquidity)
                        ELSE o.quantity) <= 0
    THEN <<"ok", <<>>, 0>>
    ELSE IF o.type = "LMT" /\ o.limit_price = Nil
    THEN <<"ValueError">>
    ELSE simulate_priced(cfg, o, quote, venue, available_liquidity, ts)

\* ExecutionSimulator.simulate
simulate(cfg, o, quote, venue, available_liquidity, ts) ==
    IF o.type = "LMT" /\ o.limit_price = Nil
    THEN <<"ValueError">>
    ELSE simulate_priced(cfg, o, quote, venue, available_liquidity, ts)

Prices == {PriceBase + PriceStride * k : k \in 0..MaxPriceStep}
Quotes == {q \in {Quote(bid, ask) : bid \in Prices, ask \in Prices} : q.bid <= q.ask}
SimOrders ==
    {NewOrder("o1", 1, side, quantity, tl[1], tif, tl[2]) :
        side \in OrderSide, quantity \in 1..MaxQty, tif \in TimeInForce,
        tl \in {<<"MKT", Nil>>, <<"LMT", Nil>>} \cup {<<"LMT", Some(p)>> : p \in Prices}}
SimConfigs ==
    {[adv |-> adv, cap_num |-> cap[1], cap_den |-> cap[2], sigma |-> sigma, costs |-> None] :
        adv \in {Nil, Some(0), Some(2 * ADV_CAP_DEN)},
        cap \in {<<ADV_CAP_NUM, ADV_CAP_DEN>>, <<1, 1>>},
        sigma \in {0, Fine}}
SimClocks == {<<"US", Nil>>, <<"US", Some(<<9, 30>>)>>, <<"US", Some(<<16, 0>>)>>,
              <<"XETR", Some(<<9, 0>>)>>}

SimInit ==
    /\ \E cfg \in SimConfigs, o \in SimOrders, quote \in Quotes, vt \in SimClocks,
          available_liquidity \in 0..MaxLiq :
           sim_in = [cfg |-> cfg, order |-> o, quote |-> quote, venue |-> vt[1],
                     available_liquidity |-> available_liquidity, ts |-> vt[2]]
    /\ sim_out = <<None>>

\* the call of simulate with the arguments drawn
Simulate ==
    /\ sim_out = <<None>>
    /\ sim_out' = simulate(sim_in.cfg, sim_in.order, sim_in.quote, sim_in.venue,
                           sim_in.available_liquidity, sim_in.ts)
    /\ UNCHANGED <<sim_in, notSim>>

(***************************************************************************)
(* data/symbols_repository.py, data/fx_repository.py                       *)
(***************************************************************************)
SymbolRow(symbol_id, ticker, exchange, currency, active_from, active_to) ==
    [symbol_id |-> symbol_id, ticker |-> ticker, exchange |-> exchange,
     currency |-> currency, active_from |-> active_from, active_to |-> active_to]

\* get_symbols_asof: the rows with
\* active_from <= asof and (active_to is NULL or active_to > asof)
get_symbols_asof(table, asof) ==
    {r \in table : r.active_from <= asof /\ (r.active_to = Nil \/ Val(r.active_to) > asof)}

FxRate(ts, base_ccy, quote_ccy, rate) ==
    [ts |-> ts, base_ccy |-> base_ccy, quote_ccy |-> quote_ccy, rate |-> rate]

\* fx_repository._utc_dt of a datetime, as the instant it denotes: a naive
\* reading is taken as UTC, an aware one is converted
utc_dt(value) == IF value.tzinfo = None THEN value.wall ELSE value.wall - UtcOffset(value.tzinfo)

\* A plausible slip: the bound ts <= asof is left out of the query.
get_rate_asof_latest(table, base_ccy, quote_ccy, asof) ==
    LET rows == {r \in table : r.base_ccy = base_ccy /\ r.quote_ccy = quote_ccy}
    IN  IF rows = {} THEN <<"LookupError">>
        ELSE <<"ok", CHOOSE r \in rows : \A r2 \in rows : r2.ts <= r.ts>>

\* get_rate_asof: the pair's latest row at or before asof, or LookupError
get_rate_asof(table, base_ccy, quote_ccy, asof) ==
    LET rows == {r \in table : r.base_ccy = base_ccy /\ r.quote_ccy = quote_ccy /\ r.ts <= asof}
    IN  IF rows = {} THEN <<"LookupError">>
        ELSE <<"ok", CHOOSE r \in rows : \A r2 \in rows : r2.ts <= r.ts>>

(***************************************************************************)
(* engine/portfolio.py.  Prices and cash are whole numbers of price units;  *)
(* the cost basis (average_price) and the realized P&L are exact fractions *)
(* [num, den] in lowest terms, so the float rounding of the divisions is   *)
(* not modelled.  positions lists the dict's values in insertion order.    *)
(***************************************************************************)
Abs(x) == IF x < 0 THEN -x ELSE x

RECURSIVE Gcd(_, _)
Gcd(a, b) == IF b = 0 THEN a ELSE Gcd(b, a % b)

\* the fraction n / d (d # 0) in lowest terms with a positive denominator
Frac(n, d) ==
    LET g == Gcd(Abs(n), Abs(d))
        sgn == IF d < 0 THEN -1 ELSE 1
    IN  [num |-> sgn * (n \div g), den |-> sgn * (d \div g)]

Whole(n) == [num |-> n, den |-> 1]
FracAdd(a, b) == Frac(a.num * b.den + b.num * a.den, a.den * b.den)
FracScale(a, k) == Frac(a.num * k, a.den)
FracOver(a, k) == Frac(a.num, a.den * k)

\* Position(symbol_id, currency): quantity 0.0, average_price 0.0
NewPosition(symbol_id, currency) ==
    [symbol_id |-> symbol_id, currency |-> currency, quantity |-> 0,
     average_price |-> Whole(0)]

\* Position.apply_fill: <<the position afterwards, realized_pnl>>.  In the
\* reduce-or-flip branch the test that chooses the new average_price reads
\* self.quantity after it has been moved by qty_delta.
position_apply_fill(pos, qty_delta, price) ==
    LET old == pos.quantity
        avg == pos.average_price
        new_qty == old + qty_delta
    IN  IF qty_delta = 0 THEN <<pos, Whole(0)>>
        ELSE IF old = 0 \/ (old > 0 /\ qty_delta > 0) \/ (old < 0 /\ qty_delta < 0)
        THEN <<[pos EXCEPT !.quantity = new_qty,
                           !.average_price =
                               IF new_qty # 0
                               THEN FracOver(FracAdd(FracScale(avg, old),
                                                     Whole(price * qty_delta)), new_qty)
                               ELSE Whole(0)],
               Whole(0)>>
        ELSE LET close_qty == Min2(Abs(qty_delta), Abs(old))
                 sign == IF old > 0 THEN 1 ELSE -1
                 realized_pnl == FracScale(FracAdd(Whole(price), FracScale(avg, -1)),
                                           close_qty * sign)
             IN  <<[pos EXCEPT !.quantity = new_qty,
                               !.average_price =
                                   IF new_qty = 0 THEN Whole(0)
                                   ELSE IF (new_qty > 0 /\ qty_delta > 0)
                                           \/ (new_qty < 0 /\ qty_delta < 0)
                                   THEN FracOver(FracAdd(avg, Whole(price)), 2)
                                   ELSE Whole(price)],
                   realized_pnl>>

NewPortfolio == [cash_by_ccy |-> <<>>, positions |-> <<>>, processed_actions |-> <<>>]

\* positions.get(symbol_id): the place of the symbol's position, 0 if none
PosIndex(positions, symbol_id) ==
    IF \E i \in DOMAIN positions : positions[i].symbol_id = symbol_id
    THEN CHOOSE i \in DOMAIN positions : positions[i].symbol_id = symbol_id
    ELSE 0

\* Portfolio.get_cash
get_cash(pf, currency) ==
    IF currency \in DOMAIN pf.cash_by_ccy THEN pf.cash_by_ccy[currency] ELSE 0

\* Portfolio.deposit (withdraw is a deposit of -amount)
deposit(pf, amount, currency) ==
    [pf EXCEPT !.cash_by_ccy =
        [c \in DOMAIN pf.cash_by_ccy \cup {currency} |->
            IF c = currency THEN get_cash(pf, currency) + amount ELSE pf.cash_by_ccy[c]]]

\* Portfolio.get_or_create_position
get_or_create_position(pf, symbol_id, currency) ==
    IF PosIndex(pf.positions, symbol_id) # 0 THEN pf
    ELSE [pf EXCEPT !.positions = Append(pf.positions, NewPosition(symbol_id, currency))]

\* A plausible slip: the realized P&L is also added to the cash.
apply_fill_pnl_to_cash(pf, symbol_id, currency, side, qty, price) ==
    LET pf1 == get_or_create_position(pf, symbol_id, currency)
        i == PosIndex(pf1.positions, symbol_id)
        moved == position_apply_fill(pf1.positions[i],
                                     IF side = "BUY" THEN qty ELSE -qty, price)
        pf2 == [pf1 EXCEPT !.positions[i] = moved[1]]
    IN  deposit(pf2, (IF side = "BUY" THEN -(qty * price) ELSE qty * price)
                     + moved[2].num \div moved[2].den, currency)

\* Portfolio.apply_fill, the portfolio afterwards: the position moves by
\* the signed quantity, the cash of the fill's currency by the notional
apply_fill(pf, symbol_id, currency, side, qty, price) ==
    LET pf1 == get_or_create_position(pf, symbol_id, currency)
        i == PosIndex(pf1.positions, symbol_id)
        qty_signed == IF side = "BUY" THEN qty ELSE -qty
        pf2 == [pf1 EXCEPT !.positions[i] =
                   position_apply_fill(pf1.positions[i], qty_signed, price)[1]]
        notional == qty * price
    IN  IF side = "BUY" THEN deposit(pf2, -notional, currency)
        ELSE deposit(pf2, notional, currency)

\* Portfolio.apply_fill, the value returned: the realized P&L
apply_fill_returns(pf, symbol_id, currency, side, qty, price) ==
    LET pf1 == get_or_create_position(pf, symbol_id, currency)
        i == PosIndex(pf1.positions, symbol_id)
    IN  position_apply_fill(pf1.positions[i], IF side = "BUY" THEN qty ELSE -qty, price)[2]

\* CorporateAction (corp_actions_repository.py); split_ratio and dividend are
\* whole numbers here: 1 is no split, 0 no dividend
CorporateAction(symbol_id, effective_date, split_ratio, dividend, currency) ==
    [symbol_id |-> symbol_id, effective_date |-> effective_date, split_ratio |-> split_ratio,
     dividend |-> dividend, currency |-> currency]

\* x has at most ten decimals
TenDecimals(x) == 1000000000 % x.den = 0

\* round(x, 10) of a value of at most ten decimals, the only ones the
\* corporate actions meet here: the value itself
round10(x) == x

\* adjusters.apply_actions: [price, qty] after the splits, in list order
RECURSIVE apply_actions_loop(_, _, _)
apply_actions_loop(adj_price, adj_qty, actions) ==
    IF actions = <<>> THEN [price |-> adj_price, qty |-> adj_qty]
    ELSE LET a == Head(actions)
         IN  IF a.split_ratio # 0 /\ a.split_ratio > 0 /\ a.split_ratio # 1
             THEN apply_actions_loop(FracOver(adj_price, a.split_ratio),
                                     adj_qty * a.split_ratio, Tail(actions))
             ELSE apply_actions_loop(adj_price, adj_qty, Tail(actions))

apply_actions(price, qty, actions) ==
    LET adj == apply_actions_loop(price, qty, actions)
    IN  [price |-> round10(adj.price), qty |-> adj.qty]

\* adjusters.dividend_cashflow_on_exdate
RECURSIVE dividend_cashflow_on_exdate(_, _)
dividend_cashflow_on_exdate(shares, actions) ==
    IF actions = <<>> THEN 0
    ELSE (IF Head(actions).dividend # 0 THEN shares * Head(actions).dividend ELSE 0)
         + dividend_cashflow_on_exdate(shares, Tail(actions))

\* Position.apply_corporate_actions
apply_corporate_actions(pos, actions) ==
    IF actions = <<>> \/ pos.quantity = 0 THEN pos
    ELSE LET adjusted == apply_actions(pos.average_price, pos.quantity, actions)
         IN  [pos EXCEPT !.average_price = adjusted.price, !.quantity = adjusted.qty]

\* A plausible slip: a date already processed is not skipped.
RECURSIVE scan_actions_nomemo(_, _, _)
scan_actions_nomemo(actions, asof, acc) ==
    IF actions = <<>> THEN acc
    ELSE LET a == Head(actions)
         IN  IF a.effective_date <= asof
             THEN scan_actions_nomemo(Tail(actions), asof,
                     [to_apply |-> Append(acc.to_apply, a),
                      div_actions |-> IF a.dividend # 0 THEN Append(acc.div_actions, a)
                                      ELSE acc.div_actions,
                      processed |-> Append(acc.processed, a.effective_date)])
             ELSE scan_actions_nomemo(Tail(actions), asof, acc)

\* the for loop of process_actions_for_symbol: to_apply, div_actions and
\* processed after the actions have been gone through
RECURSIVE scan_actions(_, _, _)
scan_actions(actions, asof, acc) ==
    IF actions = <<>> THEN acc
    ELSE LET a == Head(actions)
         IN  IF a.effective_date <= asof
                /\ ~(\E k \in DOMAIN acc.processed : acc.processed[k] = a.effective_date)
             THEN scan_actions(Tail(actions), asof,
                     [to_apply |-> Append(acc.to_apply, a),
                      div_actions |-> IF a.dividend # 0 THEN Append(acc.div_actions, a)
                                      ELSE acc.div_actions,
                      processed |-> Append(acc.processed, a.effective_date)])
             ELSE scan_actions(Tail(actions), asof, acc)

\* Portfolio.process_actions_for_symbol: <<the portfolio afterwards, the
\* value returned>>; asof is an aware datetime
process_actions_for_symbol(pf, symbol_id, actions, asof) ==
    LET at == PosIndex(pf.positions, symbol_id)
    IN  IF at = 0 \/ pf.positions[at].quantity = 0 THEN <<pf, 0>>
        ELSE LET before == IF symbol_id \in DOMAIN pf.processed_actions
                           THEN pf.processed_actions[symbol_id] ELSE <<>>
                 scan == scan_actions(actions, asof,
                            [to_apply |-> <<>>, div_actions |-> <<>>, processed |-> before])
                 pf1 == [pf EXCEPT !.processed_actions =
                            [sid \in DOMAIN pf.processed_actions \cup {symbol_id} |->
                                IF sid = symbol_id THEN scan.processed
                                ELSE pf.processed_actions[sid]]]
                 pos == apply_corporate_actions(pf.positions[at], scan.to_apply)
                 div_cash == dividend_cashflow_on_exdate(pos.quantity, scan.div_actions)
                 pf2 == [pf1 EXCEPT !.positions[at] = pos]
             IN  IF scan.to_apply = <<>> THEN <<pf1, 0>>
                 ELSE IF div_cash # 0 THEN <<deposit(pf2, div_cash, pos.currency), div_cash>>
                 ELSE <<pf2, 0>>

\* the sum of a function's values
RECURSIVE SumOver(_)
SumOver(f) ==
    IF DOMAIN f = {} THEN 0
    ELSE LET x == CHOOSE y \in DOMAIN f : TRUE
         IN  f[x] + SumOver([y \in DOMAIN f \ {x} |-> f[y]])

\* the FX rows Portfolio.total_value_eur asks for: one lookup per foreign
\* cash balance and per open, marked foreign position; each is
\* <<"ok", row>> or <<"LookupError">>
ValuationLookups(pf, base, asof, mark_prices, fx) ==
    {get_rate_asof(fx, c, base, asof) : c \in {c2 \in DOMAIN pf.cash_by_ccy : c2 # base}}
    \cup {get_rate_asof(fx, pf.positions[i].currency, base, asof) :
            i \in {j \in DOMAIN pf.positions :
                        /\ pf.positions[j].quantity # 0
                        /\ pf.positions[j].symbol_id \in DOMAIN mark_prices
                        /\ pf.positions[j].currency # base}}

\* Portfolio.total_value_eur, when every lookup succeeds
total_value_eur(pf, base, asof, mark_prices, fx) ==
    LET Rate(c) == IF c = base THEN 1 ELSE get_rate_asof(fx, c, base, asof)[2].rate
        cash == SumOver([c \in DOMAIN pf.cash_by_ccy |-> pf.cash_by_ccy[c] * Rate(c)])
        held == {i \in DOMAIN pf.positions :
                    pf.positions[i].quantity # 0 /\ pf.positions[i].symbol_id \in DOMAIN mark_prices}
        marked == SumOver([i \in held |->
                    pf.positions[i].quantity * mark_prices[pf.positions[i].symbol_id]
                    * Rate(pf.positions[i].currency)])
    IN  Grid * RoundHalfEven(cash + marked, Grid)

(***************************************************************************)
(* sdk/strategy.py: the order API of the strategy context                  *)
(***************************************************************************)
\* _OrderAPI.order: tag is Nil or Some(text)
order_api_order(orders, symbol_id, side, qty, type, limit_price, tif, tag) ==
    NewOrder(IF tag # Nil THEN Val(tag) ELSE "order_" \o ToString(Len(orders) + 1),
             symbol_id, side, qty, type, tif, limit_price)

(***************************************************************************)
(* orchestrator/backtest.py                                                *)
(***************************************************************************)
DEFAULT_SPREAD_BPS == 5
MIN_PRICE == 100        \* the floor 1e-9 of a quote, in units

\* the ascending list of a finite set of numbers (sorted)
RECURSIVE Sorted(_)
Sorted(S) ==
    IF S = {} THEN <<>>
    ELSE LET m == CHOOSE x \in S : \A y \in S : x <= y
         IN  <<m>> \o Sorted(S \ {m})

\* the rows of a store, of every symbol
StoreRows(store) == UNION {{store[sym][i] : i \in DOMAIN store[sym]} : sym \in DOMAIN store}

\* A plausible slip: the window's end is not applied.
unique_times_between_noend(store, start, end) ==
    Sorted({r.ts : r \in {x \in StoreRows(store) : ~(x.ts < start)}})

\* _unique_times_between
unique_times_between(store, start, end) ==
    Sorted({r.ts : r \in {x \in StoreRows(store) : ~(x.ts < start \/ x.ts > end)}})

\* the lists of a function's values joined in ascending key order
RECURSIVE Concat(_, _)
Concat(f, keys) ==
    IF keys = <<>> THEN <<>> ELSE f[Head(keys)] \o Concat(f, Tail(keys))

\* _bars_by_time: for each timestamp in the window the bars stamped with
\* it, sorted by (symbol_id, ts); the sort is stable and the timestamps
\* are equal, so each symbol's bars keep the store's order
bars_by_time(store, start, end) ==
    [t \in {r.ts : r \in {x \in StoreRows(store) : ~(x.ts < start \/ x.ts > end)}} |->
        Concat([sym \in DOMAIN store |-> SelectSeq(store[sym], LAMBDA r : r.ts = t)],
               Sorted(DOMAIN store))]

\* _build_symbol_maps: symbols_by_id (venue_by_symbol[s] is its exchange)
build_symbol_maps(symbol_rows) ==
    [sid \in {r.symbol_id : r \in symbol_rows} |->
        CHOOSE r \in symbol_rows : r.symbol_id = sid]

\* _quote_from_bar
quote_from_bar(bar) ==
    LET half == (DEFAULT_SPREAD_BPS * Max2(bar.close, MIN_PRICE)) \div 20000
    IN  Quote(Max2(MIN_PRICE, bar.close - half), bar.close + half)

\* dict.get(key): Nil when absent
Get(f, key) == IF key \in DOMAIN f THEN Some(f[key]) ELSE Nil

\* next((b for b in bar_rows if b.symbol_id == order.symbol_id), None)
bar_for(bar_rows, symbol_id) ==
    LET hits == SelectSeq(bar_rows, LAMBDA b : b.symbol_id = symbol_id)
    IN  IF hits = <<>> THEN Nil ELSE Some(hits[1])

\* ExecutionSimulator(cost_calculator=None): every setting at its default
DefaultSim == [adv |-> Nil, cap_num |-> ADV_CAP_NUM, cap_den |-> ADV_CAP_DEN,
               sigma |-> 0, costs |-> None]

\* the venue's local clock at a bar's timestamp: bars are stamped with the
\* session close, 16:00 in New York and 17:30 in Frankfurt
SessionClose(venue) ==
    IF VenueZone(venue) = "America/New_York" THEN Some(<<16, 0>>) ELSE Some(<<17, 30>>)

NoMatch == [order |-> Nil, bar_for_symbol |-> Nil, sym_meta |-> Nil, fills |-> <<>>]

\* the inputs of a run: a store of MaxTime sessions in which symbol 1
\* trades every session and symbol 2, without volume, from the second on
\* (the rows arrive latest first); a symbols table with one row, for
\* symbol 1; a USD/EUR rate per session from the second on
BarClose == 40000
RunRows ==
    [i \in 1..MaxTime - 1 |-> BarRow(MaxTime + 1 - i, 2, BarClose, 0)]
    \o [i \in 1..MaxTime |-> BarRow(MaxTime + 1 - i, 1, BarClose, 20)]
RunFx == {FxRate(t, "USD", "EUR", t) : t \in 2..MaxTime}

RunInit ==
    /\ by_symbol = from_rows(RunRows)
    /\ \E active_from \in Times, currency \in {"EUR", "USD"} :
          symbols_table = {SymbolRow(1, "AAA", "XNYS", currency, active_from, Nil)}
    /\ fx_table = RunFx
    /\ \E start \in Times, end \in Times :
          /\ start <= end
          /\ run_args = [start |-> start, end |-> end, base_currency |-> "EUR"]
    /\ pc = "idle"
    /\ symbols_by_id = <<>>
    /\ times = <<>>
    /\ bars_at_time = <<>>
    /\ idx = 0
    /\ ctx_now = 0
    /\ api_orders = <<>>
    /\ api_canceled = {}
    /\ pending = <<>>
    /\ match = NoMatch
    /\ fx_used = {}
    /\ portfolio = NewPortfolio
    /\ equity_points = <<>>
    /\ orders_out = <<>>
    /\ fills_out = <<>>
    /\ positions_out = <<>>
    /\ calls = <<>>
    /\ n_submitted = 0

inputVars == <<by_symbol, symbols_table, fx_table, run_args>>
logVars == <<equity_points, orders_out, fills_out, positions_out>>

\* run_backtest up to the call of strategy.on_start
Setup ==
    /\ pc = "idle"
    /\ symbols_by_id' = build_symbol_maps(get_symbols_asof(symbols_table, run_args.end))
    /\ times' = unique_times_between(by_symbol, run_args.start, run_args.end)
    /\ bars_at_time' = bars_by_time(by_symbol, run_args.start, run_args.end)
    /\ ctx_now' = run_args.start
    /\ calls' = <<<<"on_start", run_args.start>>>>
    /\ pc' = "on_start"
    /\ UNCHANGED <<inputVars, idx, api_orders, pending, match, fx_used, portfolio, logVars,
                   n_submitted, api_canceled, notRun>>

\* the orders a strategy submits: the arguments of ctx.order
StrategyOrders ==
    { [symbol_id |-> 1, side |-> "BUY", qty |-> 1, type |-> "MKT", limit_price |-> Nil,
       tif |-> "DAY", tag |-> Some("buy")],
      [symbol_id |-> 1, side |-> "SELL", qty |-> 3, type |-> "MKT", limit_price |-> Nil,
       tif |-> "IOC", tag |-> Nil],
      [symbol_id |-> 1, side |-> "BUY", qty |-> 3, type |-> "LMT", limit_price |-> Some(BarClose),
       tif |-> "FOK", tag |-> Nil],
      [symbol_id |-> 2, side |-> "BUY", qty |-> 1, type |-> "MKT", limit_price |-> Nil,
       tif |-> "DAY", tag |-> Nil],
      [symbol_id |-> 2, side |-> "SELL", qty |-> 1, type |-> "MKT", limit_price |-> Nil,
       tif |-> "FOK", tag |-> Some("sell")],
      [symbol_id |-> 1, side |-> "BUY", qty |-> 1, type |-> "LMT", limit_price |-> Nil,
       tif |-> "DAY", tag |-> Nil] }

\* ctx.order(...) inside a strategy callback
StrategyOrder ==
    /\ pc \in {"on_start", "on_event", "on_end"}
    /\ n_submitted < MaxOrders
    /\ \E a \in StrategyOrders :
          api_orders' = Append(api_orders,
              order_api_order(api_orders, a.symbol_id, a.side, a.qty, a.type,
                              a.limit_price, a.tif, a.tag))
    /\ n_submitted' = n_submitted + 1
    /\ UNCHANGED <<inputVars, pc, symbols_by_id, times, bars_at_time, idx, ctx_now, pending,
                   match, fx_used, portfolio, logVars, calls, api_canceled, notRun>>

\* ctx.cancel(tag_or_id) inside a strategy callback, for an order submitted
\* in it: _OrderAPI.cancel adds the id to _canceled
StrategyCancel ==
    /\ pc \in {"on_start", "on_event", "on_end"}
    /\ \E i \in DOMAIN api_orders : api_canceled' = api_canceled \cup {api_orders[i].id}
    /\ api_canceled' # api_canceled
    /\ UNCHANGED <<inputVars, pc, symbols_by_id, times, bars_at_time, idx, ctx_now, api_orders,
                   pending, match, fx_used, portfolio, logVars, calls, n_submitted, notRun>>

\* strategy.on_start returns
OnStartReturn ==
    /\ pc = "on_start"
    /\ pc' = "loop"
    /\ UNCHANGED <<inputVars, symbols_by_id, times, bars_at_time, idx, ctx_now, api_orders,
                   pending, match, fx_used, portfolio, logVars, calls, n_submitted,
                   api_canceled, notRun>>

\* for ts in times: ctx.now = ts, and strategy.on_event is called
BeginStep ==
    /\ pc = "loop"
    /\ idx < Len(times)
    /\ ctx_now' = times[idx + 1]
    /\ calls' = Append(calls, <<"on_event", times[idx + 1]>>)
    /\ pc' = "on_event"
    /\ UNCHANGED <<inputVars, symbols_by_id, times, bars_at_time, idx, api_orders, pending,
                   match, fx_used, portfolio, logVars, n_submitted, api_canceled, notRun>>

\* strategy.on_event returns: pending = list(_orders); _orders.clear()
OnEventReturn ==
    /\ pc = "on_event"
    /\ pending' = api_orders
    /\ api_orders' = <<>>
    /\ pc' = "match"
    /\ UNCHANGED <<inputVars, symbols_by_id, times, bars_at_time, idx, ctx_now, match,
                   fx_used, portfolio, logVars, calls, n_submitted, api_canceled, notRun>>

\* the order loop's first lines for the next pending order
NextBar == bar_for(IF ctx_now \in DOMAIN bars_at_time THEN bars_at_time[ctx_now] ELSE <<>>,
                   Head(pending).symbol_id)
NextVenue ==
    IF Get(symbols_by_id, Head(pending).symbol_id) = Nil THEN "UNKNOWN"
    ELSE symbols_by_id[Head(pending).symbol_id].exchange
NextSimulation ==
    simulate(DefaultSim, Head(pending), quote_from_bar(Val(NextBar)), NextVenue,
             Max2(Val(NextBar).volume, Head(pending).quantity), SessionClose(NextVenue))

\* one turn of the order loop: no bar for the symbol at ts, continue
MatchSkip ==
    /\ pc = "match"
    /\ pending # <<>>
    /\ NextBar = Nil
    /\ match' = [order |-> Some(Head(pending)), bar_for_symbol |-> Nil, sym_meta |-> Nil,
                 fills |-> <<>>]
    /\ pending' = Tail(pending)
    /\ UNCHANGED <<inputVars, pc, symbols_by_id, times, bars_at_time, idx, ctx_now,
                   api_orders, fx_used, portfolio, logVars, calls, n_submitted,
                   api_canceled, notRun>>

\* one turn of the order loop: simulate raises, and so does run_backtest
MatchRaise ==
    /\ pc = "match"
    /\ pending # <<>>
    /\ NextBar # Nil
    /\ NextSimulation[1] # "ok"
    /\ pc' = NextSimulation[1]
    /\ UNCHANGED <<inputVars, symbols_by_id, times, bars_at_time, idx, ctx_now, api_orders,
                   pending, match, fx_used, portfolio, logVars, calls, n_submitted,
                   api_canceled, notRun>>

\* A plausible slip: the fill rows carry the time the run was started at.
FillRows_stamped(ts, o, venue, fills) ==
    [i \in DOMAIN fills |->
        [ts |-> ts, order_id |-> <<wall_clock, o.id>>, symbol_id |-> o.symbol_id,
         price |-> fills[i].price, quantity |-> fills[i].quantity, venue |-> venue,
         cost |-> 0]]

\* the fill-log rows of one order
FillRows(ts, o, venue, fills) ==
    [i \in DOMAIN fills |->
        [ts |-> ts, order_id |-> o.id, symbol_id |-> o.symbol_id, price |-> fills[i].price,
         quantity |-> fills[i].quantity, venue |-> venue, cost |-> 0]]

\* the order-log row of one order
OrderRow(ts, o) ==
    [ts |-> ts, order_id |-> o.id, symbol_id |-> o.symbol_id, side |-> o.side,
     quantity |-> o.quantity, type |-> o.type, tif |-> o.tif, limit_price |-> o.limit_price,
     state |-> o.state]

\* the portfolio after the fills of one order (at most one) are applied
RECURSIVE ApplyFills(_, _, _, _)
ApplyFills(pf, o, currency, fills) ==
    IF fills = <<>> THEN pf
    ELSE ApplyFills(apply_fill(pf, o.symbol_id, currency, o.side, Head(fills).quantity,
                               Head(fills).price),
                    o, currency, Tail(fills))

\* one turn of the order loop: simulate, apply the fills to the portfolio,
\* log the fills and the order
MatchOrder ==
    /\ pc = "match"
    /\ pending # <<>>
    /\ NextBar # Nil
    /\ NextSimulation[1] = "ok"
    /\ LET o == Head(pending)
           fills == NextSimulation[2]
           cost_total == NextSimulation[3]
           sym_meta == Get(symbols_by_id, o.symbol_id)
           currency == IF sym_meta # Nil THEN Val(sym_meta).currency ELSE run_args.base_currency
           filled == ApplyFills(portfolio, o, currency, fills)
       IN  /\ portfolio' = IF cost_total # 0
                           THEN deposit(filled, -cost_total, run_args.base_currency)
                           ELSE filled
           /\ fills_out' = fills_out \o FillRows(ctx_now, o, NextVenue, fills)
           /\ orders_out' = Append(orders_out, OrderRow(ctx_now, o))
           /\ match' = [order |-> Some(o), bar_for_symbol |-> NextBar, sym_meta |-> sym_meta,
                        fills |-> fills]
    /\ pending' = Tail(pending)
    /\ UNCHANGED <<inputVars, pc, symbols_by_id, times, bars_at_time, idx, ctx_now,
                   api_orders, fx_used, equity_points, positions_out, calls, n_submitted,
                   api_canceled, notRun>>

\* mark_prices[b.symbol_id] = b.close for the bars at ts
MarkPrices ==
    LET bars == IF ctx_now \in DOMAIN bars_at_time THEN bars_at_time[ctx_now] ELSE <<>>
    IN  [sid \in {bars[i].symbol_id : i \in DOMAIN bars} |->
            LET hits == SelectSeq(bars, LAMBDA b : b.symbol_id = sid)
            IN  hits[Len(hits)].close]

StepLookups ==
    ValuationLookups(portfolio, run_args.base_currency, ctx_now, MarkPrices, fx_table)

\* the end of a step when total_value_eur finds no rate: LookupError
SnapshotRaise ==
    /\ pc = "match"
    /\ pending = <<>>
    /\ <<"LookupError">> \in StepLookups
    /\ pc' = "LookupError"
    /\ UNCHANGED <<inputVars, symbols_by_id, times, bars_at_time, idx, ctx_now, api_orders,
                   pending, match, fx_used, portfolio, logVars, calls, n_submitted,
                   api_canceled, notRun>>

\* the end of a step: mark the portfolio, record the equity and the
\* positions, and go on to the next timestamp
Snapshot ==
    /\ pc = "match"
    /\ pending = <<>>
    /\ <<"LookupError">> \notin StepLookups
    /\ fx_used' = {l[2] : l \in StepLookups}
    /\ equity_points' = Append(equity_points,
          [ts |-> ctx_now,
           equity_eur |-> total_value_eur(portfolio, run_args.base_currency, ctx_now,
                                          MarkPrices, fx_table)])
    /\ positions_out' = positions_out \o
          [i \in DOMAIN portfolio.positions |->
              [ts |-> ctx_now, symbol_id |-> portfolio.positions[i].symbol_id,
               currency |-> portfolio.positions[i].currency,
               quantity |-> portfolio.positions[i].quantity,
               average_price |-> portfolio.positions[i].average_price]]
    /\ idx' = idx + 1
    /\ pc' = "loop"
    /\ UNCHANGED <<inputVars, symbols_by_id, times, bars_at_time, ctx_now, api_orders,
                   pending, match, portfolio, orders_out, fills_out, calls, n_submitted,
                   api_canceled, notRun>>

\* the loop is over: strategy.on_end is called
LoopEnd ==
    /\ pc = "loop"
    /\ idx = Len(times)
    /\ calls' = Append(calls, <<"on_end", ctx_now>>)
    /\ pc' = "on_end"
    /\ UNCHANGED <<inputVars, symbols_by_id, times, bars_at_time, idx, ctx_now, api_orders,
                   pending, match, fx_used, portfolio, logVars, n_submitted, api_canceled, notRun>>

\* strategy.on_end returns; the metrics are computed and the equity, order,
\* fill and position files written from the lists as they stand; then
\* compute_params_hash hands the parameters, the datetimes start and end
\* among them, to json.dumps, which raises TypeError
OnEndReturn ==
    /\ pc = "on_end"
    /\ pc' = "TypeError"
    /\ UNCHANGED <<inputVars, symbols_by_id, times, bars_at_time, idx, ctx_now, api_orders,
                   pending, match, fx_used, portfolio, logVars, calls, n_submitted,
                   api_canceled, notRun>>

(***************************************************************************)
(* Two executions of run_backtest on the same inputs, one after the other, *)
(* with a strategy that does in the second what it did in the first: in    *)
(* the same callback, counted from the start of the run, the same orders.  *)
(* Only the wall clock differs between the two.                            *)
(***************************************************************************)
Walls == 1..MaxWall
notTwice == <<queueVars, orderVars, pitVars, simVars, foldVars, pfVars, lateVars>>

\* run_id = f"run_{int(datetime.now().timestamp())}_{rng.randrange(10**6):06d}":
\* the random part is that of Random(seed), the same in both executions
run_id == <<"run", wall_clock>>

\* the first execution starts at the first reading of the clock
TwiceInit == wall_clock = 1 /\ run_no = 1 /\ script = <<>> /\ first_run = Nil

\* ctx.order(...) with the arguments a
Submit(a) ==
    /\ pc \in {"on_start", "on_event", "on_end"}
    /\ n_submitted < MaxOrders
    /\ api_orders' = Append(api_orders,
          order_api_order(api_orders, a.symbol_id, a.side, a.qty, a.type,
                          a.limit_price, a.tif, a.tag))
    /\ n_submitted' = n_submitted + 1
    /\ UNCHANGED <<inputVars, pc, symbols_by_id, times, bars_at_time, idx, ctx_now, pending,
                   match, fx_used, portfolio, logVars, calls, api_canceled, notTwice>>

\* the strategy orders in the first execution: what it does is noted
FirstRunOrder ==
    /\ run_no = 1
    /\ \E a \in StrategyOrders :
          /\ Submit(a)
          /\ script' = Append(script, <<Len(calls), a>>)
    /\ UNCHANGED <<wall_clock, run_no, first_run>>

\* the strategy has something left to do in the callback it is in
ScriptDue == script # <<>> /\ Head(script)[1] = Len(calls)

\* the strategy orders in the second execution: what it did in the first
SecondRunOrder ==
    /\ run_no = 2
    /\ ScriptDue
    /\ Submit(Head(script)[2])
    /\ script' = Tail(script)
    /\ UNCHANGED <<wall_clock, run_no, first_run>>

\* a callback returns; in the second execution, once the strategy has done
\* in it all it did the first time
TwiceOnStartReturn == (run_no = 2 => ~ScriptDue) /\ OnStartReturn
TwiceOnEventReturn == (run_no = 2 => ~ScriptDue) /\ OnEventReturn
TwiceOnEndReturn == (run_no = 2 => ~ScriptDue) /\ OnEndReturn

RunOver == pc \in {"TypeError", "ValueError", "LookupError"}

\* the first execution is over; run_backtest is called again with the same
\* arguments on the same data
SecondRun ==
    /\ run_no = 1
    /\ RunOver
    /\ first_run' = Some([equity |-> equity_points, orders |-> orders_out,
                          fills |-> fills_out, pc |-> pc, run_id |-> run_id])
    /\ run_no' = 2
    /\ wall_clock' \in Walls
    /\ pc' = "idle"
    /\ symbols_by_id' = <<>>
    /\ times' = <<>>
    /\ bars_at_time' = <<>>
    /\ idx' = 0
    /\ ctx_now' = 0
    /\ api_orders' = <<>>
    /\ api_canceled' = {}
    /\ pending' = <<>>
    /\ match' = NoMatch
    /\ fx_used' = {}
    /\ portfolio' = NewPortfolio
    /\ equity_points' = <<>>
    /\ orders_out' = <<>>
    /\ fills_out' = <<>>
    /\ positions_out' = <<>>
    /\ calls' = <<>>
    /\ n_submitted' = 0
    /\ UNCHANGED <<inputVars, script, notTwice>>

(***************************************************************************)
(* research/validation.py: the fold generators                             *)
(***************************************************************************)
\* the embargo fraction is e_num / EDen
EDen == 4

FoldSpec(train_ranges, val_range) == [train_ranges |-> train_ranges, val_range |-> val_range]

\* A plausible slip: the embargo is left out.
EmbargoSteps_none(n, e_num) == 0

\* embargo = max(0, int(len(times) * max(0.0, min(embargo_fraction, 0.5))))
EmbargoSteps(n, e_num) == Max2(0, (n * Max2(0, Min2(2 * e_num, EDen))) \div (2 * EDen))

\* A plausible slip: the left training block runs up to the validation
\* block's first timestamp instead of stopping before it.
KFold_inclusive(timeline, i, n_splits, fold_size, embargo) ==
    LET n == Len(timeline)
        val_start_idx == i * fold_size
        val_end_idx == IF i = n_splits - 1 THEN n - 1
                       ELSE Min2(n - 1, (i + 1) * fold_size - 1)
        left_train_end_idx == Max2(-1, val_start_idx - embargo)
        right_train_start_idx == Min2(n, val_end_idx + 1 + embargo)
        left == IF left_train_end_idx >= 0
                THEN <<<<timeline[1], timeline[left_train_end_idx + 1]>>>> ELSE <<>>
        right == IF right_train_start_idx <= n - 1
                 THEN <<<<timeline[right_train_start_idx + 1], timeline[n]>>>> ELSE <<>>
    IN  FoldSpec(left \o right, <<timeline[val_start_idx + 1], timeline[val_end_idx + 1]>>)

\* A plausible slip: the last validation block is cut like the others.
KFold_noremainder(timeline, i, n_splits, fold_size, embargo) ==
    LET n == Len(timeline)
        val_start_idx == i * fold_size
        val_end_idx == Min2(n - 1, (i + 1) * fold_size - 1)
        left_train_end_idx == Max2(-1, val_start_idx - 1 - embargo)
        right_train_start_idx == Min2(n, val_end_idx + 1 + embargo)
        left == IF left_train_end_idx >= 0
                THEN <<<<timeline[1], timeline[left_train_end_idx + 1]>>>> ELSE <<>>
        right == IF right_train_start_idx <= n - 1
                 THEN <<<<timeline[right_train_start_idx + 1], timeline[n]>>>> ELSE <<>>
    IN  FoldSpec(left \o right, <<timeline[val_start_idx + 1], timeline[val_end_idx + 1]>>)

\* the fold whose validation block is the i-th of n_splits (i from 0);
\* Python's indexes start at 0, the sequence's at 1
KFold(timeline, i, n_splits, fold_size, embargo) ==
    LET n == Len(timeline)
        val_start_idx == i * fold_size
        val_end_idx == IF i = n_splits - 1 THEN n - 1
                       ELSE Min2(n - 1, (i + 1) * fold_size - 1)
        left_train_end_idx == Max2(-1, val_start_idx - 1 - embargo)
        right_train_start_idx == Min2(n, val_end_idx + 1 + embargo)
        left == IF left_train_end_idx >= 0
                THEN <<<<timeline[1], timeline[left_train_end_idx + 1]>>>> ELSE <<>>
        right == IF right_train_start_idx <= n - 1
                 THEN <<<<timeline[right_train_start_idx + 1], timeline[n]>>>> ELSE <<>>
    IN  FoldSpec(left \o right, <<timeline[val_start_idx + 1], timeline[val_end_idx + 1]>>)

\* make_purged_kfold_folds
make_purged_kfold_folds(store, start, end, n_splits, e_num) ==
    LET timeline == unique_times_between(store, start, end)
        fold_size == Max2(1, Len(timeline) \div n_splits)
        embargo == EmbargoSteps(Len(timeline), e_num)
    IN  IF n_splits <= 1 THEN <<"ValueError">>
        ELSE IF Len(timeline) < n_splits THEN <<"ValueError">>
        ELSE <<"ok", [k \in 1..n_splits |-> KFold(timeline, k - 1, n_splits, fold_size, embargo)]>>

\* the while loop of make_walk_forward_folds, from index i on
RECURSIVE WalkFrom(_, _, _, _, _, _)
WalkFrom(timeline, i, train_window, test_window, step, embargo) ==
    LET train_start_idx == i
        train_end_idx == i + train_window - 1
        val_start_idx == train_end_idx + 1 + embargo
        val_end_idx == val_start_idx + test_window - 1
    IN  IF val_end_idx >= Len(timeline) THEN <<>>
        ELSE <<FoldSpec(<<<<timeline[train_start_idx + 1], timeline[train_end_idx + 1]>>>>,
                        <<timeline[val_start_idx + 1], timeline[val_end_idx + 1]>>)>>
             \o WalkFrom(timeline, i + step, train_window, test_window, step, embargo)

\* make_walk_forward_folds: step is Nil or Some(n)
make_walk_forward_folds(store, start, end, train_window, test_window, step, e_num) ==
    LET timeline == unique_times_between(store, start, end)
        step_used == IF step # Nil /\ Val(step) > 0 THEN Val(step) ELSE test_window
        embargo == EmbargoSteps(Len(timeline), e_num)
    IN  IF train_window <= 0 \/ test_window <= 0 THEN <<"ValueError">>
        ELSE <<"ok", WalkFrom(timeline, 0, train_window, test_window, step_used, embargo)>>

\* the stores drawn: symbol 1 has a bar at each of a set of timestamps, the
\* rows arriving latest first, and symbol 2 a bar at the last of them
RECURSIVE Descending(_)
Descending(S) ==
    IF S = {} THEN <<>>
    ELSE LET m == CHOOSE x \in S : \A y \in S : y <= x
         IN  <<BarRow(m, 1, BarClose, 20)>> \o Descending(S \ {m})
FoldStore(S) ==
    IF S = {} THEN from_rows(<<>>)
    ELSE from_rows(Descending(S)
                   \o <<BarRow(CHOOSE x \in S : \A y \in S : y <= x, 2, BarClose, 0)>>)

Fractions == -1..EDen

FoldInit ==
    /\ \E S \in SUBSET (1..MaxStamp) : by_symbol = FoldStore(S)
    /\ \E start \in {1, 2}, end \in {MaxStamp - 1, MaxStamp}, e_num \in Fractions :
          \/ \E n_splits \in 1..MaxSplits :
                fold_in = [kind |-> "purged_kfold", start |-> start, end |-> end,
                           e_num |-> e_num, n_splits |-> n_splits,
                           train_window |-> 0, test_window |-> 0, step |-> Nil]
          \/ \E train_window \in 0..MaxWindow, test_window \in 0..MaxWindow,
                step \in {Nil} \cup {Some(n) : n \in 0..MaxWindow} :
                fold_in = [kind |-> "walk_forward", start |-> start, end |-> end,
                           e_num |-> e_num, n_splits |-> 0,
                           train_window |-> train_window, test_window |-> test_window,
                           step |-> step]
    /\ fold_out = <<None>>

notFold == <<queueVars, orderVars, storeVars, pitVars, simVars, dbVars, runVars, twiceVars,
            pfVars, lateVars>>

MakePurgedKfoldFolds ==
    /\ fold_out = <<None>>
    /\ fold_in.kind = "purged_kfold"
    /\ fold_out' = make_purged_kfold_folds(by_symbol, fold_in.start, fold_in.end,
                                           fold_in.n_splits, fold_in.e_num)
    /\ UNCHANGED <<fold_in, notFold>>

MakeWalkForwardFolds ==
    /\ fold_out = <<None>>
    /\ fold_in.kind = "walk_forward"
    /\ fold_out' = make_walk_forward_folds(by_symbol, fold_in.start, fold_in.end,
                                           fold_in.train_window, fold_in.test_window,
                                           fold_in.step, fold_in.e_num)
    /\ UNCHANGED <<fold_in, notFold>>

(***************************************************************************)
(* research/validation.py: make_walk_forward_folds run one step of its     *)
(* while loop at a time.                                                   *)
(***************************************************************************)
\* A plausible slip: the step asked for is ignored.
StepUsed_testwindow(step, test_window) == test_window

\* step = step if step is not None and step > 0 else test_window
StepUsed(step, test_window) ==
    IF step # Nil /\ Val(step) > 0 THEN Val(step) ELSE test_window

\* the function's locals times and embargo, for the arguments held in fold_in
WalkTimes == unique_times_between(by_symbol, fold_in.start, fold_in.end)
WalkEmbargo == EmbargoSteps(Len(WalkTimes), fold_in.e_num)
WalkValEndIdx == walk.i + fold_in.train_window - 1 + 1 + WalkEmbargo + fold_in.test_window - 1

\* the calls drawn are those of FoldInit that span the whole store, with no
\* embargo, a quarter or the whole of the fraction's range
WalkInit ==
    /\ FoldInit
    /\ fold_in.kind = "walk_forward"
    /\ fold_in.start = 1 /\ fold_in.end = MaxStamp /\ fold_in.e_num \in {0, 1, EDen}
    /\ walk = [pc |-> "called", i |-> 0, folds |-> <<>>]

\* the argument check, and the locals set up before the loop
WalkEnter ==
    /\ walk.pc = "called"
    /\ IF fold_in.train_window <= 0 \/ fold_in.test_window <= 0
       THEN /\ walk' = [walk EXCEPT !.pc = "raised"]
            /\ fold_out' = <<"ValueError">>
       ELSE /\ walk' = [pc |-> "loop", i |-> 0, folds |-> <<>>]
            /\ UNCHANGED fold_out
    /\ UNCHANGED <<fold_in, notWalk>>

\* one pass of the loop that appends a fold and moves i on by step
WalkAppend ==
    /\ walk.pc = "loop"
    /\ ~(WalkValEndIdx >= Len(WalkTimes))
    /\ LET train_start_idx == walk.i
           train_end_idx == walk.i + fold_in.train_window - 1
           val_start_idx == train_end_idx + 1 + WalkEmbargo
           val_end_idx == val_start_idx + fold_in.test_window - 1
       IN  walk' = [walk EXCEPT
                      !.folds = Append(@, FoldSpec(<<<<WalkTimes[train_start_idx + 1],
                                                       WalkTimes[train_end_idx + 1]>>>>,
                                                   <<WalkTimes[val_start_idx + 1],
                                                     WalkTimes[val_end_idx + 1]>>)),
                      !.i = @ + StepUsed(fold_in.step, fold_in.test_window)]
    /\ UNCHANGED <<fold_in, fold_out, notWalk>>

\* the pass that breaks out of the loop, and the return
WalkReturn ==
    /\ walk.pc = "loop"
    /\ WalkValEndIdx >= Len(WalkTimes)
    /\ walk' = [walk EXCEPT !.pc = "returned"]
    /\ fold_out' = <<"ok", walk.folds>>
    /\ UNCHANGED <<fold_in, notWalk>>

(***************************************************************************)
(* data/calendars.py                                                       *)
(*                                                                         *)
(* Time is counted in slots of half an hour from a Monday 00:00 UTC; every *)
(* session boundary of the module falls on a slot.  The zones keep one     *)
(* offset throughout (New York four hours behind UTC, Berlin two hours     *)
(* ahead): daylight-saving changes are not modelled.  The dates of the     *)
(* holiday and half-day rules are days of the week modelled: the Tuesday   *)
(* stands for a December 24 and the Thursday for a July 4.                  *)
(***************************************************************************)
SlotsPerHour == 2
SlotsPerDay == 24 * SlotsPerHour
XnysHolidays == {3}     \* the days _xnys_holiday is true of
XetrHalfDays == {1}     \* the days _xetr_half_day is true of

\* EXCHANGE_TZ.get(exchange): the zone's offset from UTC in slots, Nil when
\* the exchange is not in the table
ExchangeTz(exchange) ==
    CASE exchange = "XNYS" -> Some(-4 * SlotsPerHour)
      [] exchange = "XETR" -> Some(2 * SlotsPerHour)
      [] OTHER -> Nil

\* time(hour, minute) as a slot of the day
TimeOfDay(hour, minute) == hour * SlotsPerHour + minute \div 30

\* _local_date: the local reading of the instant ts in the zone tz
local_date(ts, tz) == ts + tz
\* local.replace(hour=..., minute=..., second=0, microsecond=0)
ReplaceTime(local, time_of_day) == (local \div SlotsPerDay) * SlotsPerDay + time_of_day
\* _is_weekend: weekday() >= 5
is_weekend(local) == (local \div SlotsPerDay) % 7 >= 5
xnys_holiday(local) == (local \div SlotsPerDay) \in XnysHolidays
xetr_half_day(local) == (local \div SlotsPerDay) \in XetrHalfDays

\* _session_hours, for an exchange of the table
session_hours(exchange, local) ==
    IF exchange = "XNYS"
    THEN [open_time |-> TimeOfDay(9, 30), close_time |-> TimeOfDay(16, 0)]
    ELSE IF xetr_half_day(local)
         THEN [open_time |-> TimeOfDay(9, 0), close_time |-> TimeOfDay(14, 0)]
         ELSE [open_time |-> TimeOfDay(9, 0), close_time |-> TimeOfDay(17, 30)]

\* is_open: <<"ok", a boolean>> or <<"ValueError">>
is_open(exchange, ts) ==
    IF ExchangeTz(exchange) = Nil THEN <<"ValueError">>
    ELSE LET tz == Val(ExchangeTz(exchange))
             local == local_date(ts, tz)
             hours == session_hours(exchange, local)
             open_dt == ReplaceTime(local, hours.open_time)
             close_dt == ReplaceTime(local, hours.close_time)
         IN  IF is_weekend(local) THEN <<"ok", FALSE>>
             ELSE IF exchange = "XNYS" /\ xnys_holiday(local) THEN <<"ok", FALSE>>
             ELSE <<"ok", open_dt <= local /\ local < close_dt>>

\* the while loop of next_open; what it returns is a local reading
RECURSIVE next_open_loop(_, _, _)
next_open_loop(exchange, local, days_ahead) ==
    LET candidate == local + days_ahead * SlotsPerDay
        hours == session_hours(exchange, candidate)
        open_dt == ReplaceTime(candidate, hours.open_time)
        close_dt == ReplaceTime(candidate, hours.close_time)
    IN  IF is_weekend(candidate) THEN next_open_loop(exchange, local, days_ahead + 1)
        ELSE IF exchange = "XNYS" /\ xnys_holiday(candidate)
        THEN next_open_loop(exchange, local, days_ahead + 1)
        ELSE IF days_ahead = 0 /\ local < open_dt THEN open_dt
        ELSE IF days_ahead = 0 /\ local < close_dt /\ local >= open_dt
        THEN next_open_loop(exchange, local, days_ahead + 1)
        ELSE IF days_ahead > 0 THEN open_dt
        ELSE next_open_loop(exchange, local, days_ahead + 1)

\* A plausible slip: the day's open is returned although it has passed.
next_open_today(exchange, ts) ==
    IF ExchangeTz(exchange) = Nil THEN <<"ValueError">>
    ELSE LET tz == Val(ExchangeTz(exchange))
             local == local_date(ts, tz)
         IN  IF is_weekend(local) \/ (exchange = "XNYS" /\ xnys_holiday(local))
             THEN <<"ok", next_open_loop(exchange, local, 0) - tz>>
             ELSE <<"ok", ReplaceTime(local, session_hours(exchange, local).open_time) - tz>>

\* next_open: <<"ok", the instant>> or <<"ValueError">>
next_open(exchange, ts) ==
    IF ExchangeTz(exchange) = Nil THEN <<"ValueError">>
    ELSE LET tz == Val(ExchangeTz(exchange))
         IN  <<"ok", next_open_loop(exchange, local_date(ts, tz), 0) - tz>>

\* the while loop of next_close
RECURSIVE next_close_loop(_, _, _)
next_close_loop(exchange, local, days_ahead) ==
    LET candidate == local + days_ahead * SlotsPerDay
        hours == session_hours(exchange, candidate)
        close_dt == ReplaceTime(candidate, hours.close_time)
    IN  IF is_weekend(candidate) THEN next_close_loop(exchange, local, days_ahead + 1)
        ELSE IF exchange = "XNYS" /\ xnys_holiday(candidate)
        THEN next_close_loop(exchange, local, days_ahead + 1)
        ELSE IF days_ahead = 0 /\ local < close_dt THEN close_dt
        ELSE IF days_ahead = 0 /\ local >= close_dt
        THEN next_close_loop(exchange, local, days_ahead + 1)
        ELSE IF days_ahead > 0 THEN close_dt
        ELSE next_close_loop(exchange, local, days_ahead + 1)

\* next_close: <<"ok", the instant>> or <<"ValueError">>
next_close(exchange, ts) ==
    IF ExchangeTz(exchange) = Nil THEN <<"ValueError">>
    ELSE LET tz == Val(ExchangeTz(exchange))
         IN  <<"ok", next_close_loop(exchange, local_date(ts, tz), 0) - tz>>

(***************************************************************************)
(* engine/clock.py: a Clock and the EventQueue it is given                 *)
(***************************************************************************)
\* the instant of a datetime whose wall reading is in slots; a naive one is
\* taken as UTC (ts.replace(tzinfo=timezone.utc))
ClockInstant(dt) ==
    IF dt.tzinfo = "UTC+1" THEN dt.wall - SlotsPerHour ELSE dt.wall

\* EventQueue.push on the queue <<heap, seq_counter>>, the event carrying
\* its payload: the queue afterwards
queue_push(q, ts, type, payload) ==
    LET evt == [ts |-> ts, type |-> type, seq |-> q[2], payload |-> payload]
    IN  <<HeapPush(q[1], <<evt.ts, TypeRank(evt.type), evt.seq, evt>>), q[2] + 1>>

\* the order of Python's str comparison among the exchange codes drawn
CodeRank(exchange) ==
    CASE exchange = "XETR" -> 1
      [] exchange = "XNYS" -> 2
      [] exchange = "XTKS" -> 3

\* sorted(self._exchanges)
RECURSIVE SortedCodes(_)
SortedCodes(codes) ==
    IF codes = <<>> THEN <<>>
    ELSE LET k == CHOOSE i \in DOMAIN codes :
                     \A j \in DOMAIN codes :
                         \/ CodeRank(codes[i]) < CodeRank(codes[j])
                         \/ CodeRank(codes[i]) = CodeRank(codes[j]) /\ i <= j
         IN  <<codes[k]>> \o SortedCodes([j \in 1..(Len(codes) - 1) |->
                                              IF j < k THEN codes[j] ELSE codes[j + 1]])

\* A plausible slip: a close is scheduled whether or not the exchange is open.
Boundary_alwaysclose(ex, now) ==
    [at |-> next_close(ex, now)[2], label |-> ex \o ":close"]

\* lines 33-38: the boundary and its label, for an exchange of the table
Boundary(ex, now) ==
    IF is_open(ex, now)[2]
    THEN [at |-> next_close(ex, now)[2], label |-> ex \o ":close"]
    ELSE [at |-> next_open(ex, now)[2], label |-> ex \o ":open"]

\* the for loop of advance over the exchanges left: the queue afterwards and
\* whether the calendar raised
RECURSIVE advance_loop(_, _, _)
advance_loop(codes, q, now) ==
    IF codes = <<>> THEN [queue |-> q, raised |-> None]
    ELSE LET ex == Head(codes)
         IN  IF is_open(ex, now) = <<"ValueError">>
             THEN [queue |-> q, raised |-> "ValueError"]
             ELSE advance_loop(Tail(codes),
                               queue_push(q, Boundary(ex, now).at, "CLOCK",
                                          [exchange |-> ex, label |-> Boundary(ex, now).label]),
                               now)

\* Clock.advance
advance(codes, q, now) == advance_loop(SortedCodes(codes), q, ClockInstant(now))

\* Clock.seed
seed(q, start) ==
    queue_push(q, ClockInstant(start), "CLOCK", [exchange |-> None, label |-> "start"])

\* the lists of exchanges the Clock is built with: the test's, a single
\* exchange, one exchange twice, and one the calendar does not know
ClockConfigs ==
    {<<"XNYS", "XETR">>, <<"XETR">>, <<"XNYS", "XNYS">>, <<"XTKS", "XETR">>}

\* the moments drawn, as <<day, hour, minute>> UTC: around the opens and
\* closes of either exchange on an ordinary day, on the half-day, on the
\* holiday, before and in the weekend
ClockMoments ==
    {<<0, 6, 30>>, <<0, 7, 0>>, <<0, 13, 30>>, <<0, 15, 30>>, <<0, 20, 0>>,
     <<1, 12, 0>>, <<1, 15, 0>>, <<3, 2, 0>>, <<3, 13, 30>>, <<3, 19, 30>>,
     <<4, 15, 30>>, <<4, 20, 0>>, <<4, 22, 0>>, <<5, 4, 0>>, <<5, 10, 0>>,
     <<6, 22, 0>>, <<6, 23, 30>>}
MomentSlot(m) == m[1] * SlotsPerDay + TimeOfDay(m[2], m[3])
\* each moment as an aware UTC datetime; the Monday's also naive and in a
\* zone an hour ahead
ClockDateTimes ==
    {DateTime(MomentSlot(m), "UTC") : m \in ClockMoments}
    \cup {DateTime(MomentSlot(m), None) : m \in {n \in ClockMoments : n[1] = 0 /\ n[2] < 14}}
    \cup {DateTime(MomentSlot(m) + SlotsPerHour, "UTC+1") :
             m \in {n \in ClockMoments : n[1] = 0 /\ n[2] >= 13}}

ClockInit ==
    /\ heap = <<>>
    /\ seq_counter = 0
    /\ q_call = None
    /\ popped = <<>>
    /\ clock_exchanges \in ClockConfigs
    /\ clock_call = [op |-> None, arg |-> NoDateTime, heap |-> <<>>, raised |-> None,
                     at_event |-> Nil]

\* c.seed(q, start)
Seed ==
    \E start \in ClockDateTimes :
        /\ seq_counter < MaxClockPush
        /\ heap' = seed(<<heap, seq_counter>>, start)[1]
        /\ seq_counter' = seed(<<heap, seq_counter>>, start)[2]
        /\ clock_call' = [op |-> "seed", arg |-> start, heap |-> heap, raised |-> None,
                          at_event |-> Nil]
        /\ UNCHANGED <<clock_exchanges, q_call, popped, notClock>>

\* c.advance(q, now)
Advance ==
    \E now \in ClockDateTimes :
        /\ seq_counter < MaxClockPush
        /\ LET out == advance(clock_exchanges, <<heap, seq_counter>>, now)
           IN  /\ heap' = out.queue[1]
               /\ seq_counter' = out.queue[2]
               /\ clock_call' = [op |-> "advance", arg |-> now, heap |-> heap,
                                 raised |-> out.raised, at_event |-> Nil]
        /\ UNCHANGED <<clock_exchanges, q_call, popped, notClock>>

\* one turn of a loop over the queue: evt = q.pop(); c.advance(q, evt.ts)
PopAdvance ==
    /\ heap # <<>>
    /\ seq_counter < MaxClockPush
    /\ LET evt == HeapPop(heap)[1][4]
           rest == HeapPop(heap)[2]
           now == DateTime(evt.ts, "UTC")
           out == advance(clock_exchanges, <<rest, seq_counter>>, now)
       IN  /\ heap' = out.queue[1]
           /\ seq_counter' = out.queue[2]
           /\ clock_call' = [op |-> "advance", arg |-> now, heap |-> rest,
                             raised |-> out.raised, at_event |-> Some(evt)]
    /\ UNCHANGED <<clock_exchanges, q_call, popped, notClock>>

(***************************************************************************)
(* engine/portfolio.py: a Portfolio on its own, served one apply_fill      *)
(* after another.                                                          *)
(***************************************************************************)
FillSymbols == {1, 2}
FillCurrencies == {"EUR", "USD"}
FillQuantities == {0, 1, 2}
FillPrices == {10, 12}

\* Portfolio(): no cash, no position
PortfolioInit ==
    /\ folio = NewPortfolio
    /\ pf_pre = NewPortfolio
    /\ pf_call = Nil
    /\ pf_ret = Nil
    /\ pf_n = 0

\* Portfolio.apply_fill(symbol_id, currency, side, qty, price)
PortfolioApplyFill ==
    /\ pf_n < MaxFills
    /\ \E symbol_id \in FillSymbols, currency \in FillCurrencies, side \in {"BUY", "SELL"},
          qty \in FillQuantities, price \in FillPrices :
          /\ pf_pre' = folio
          /\ pf_call' = Some([symbol_id |-> symbol_id, currency |-> currency, side |-> side,
                              qty |-> qty, price |-> price])
          /\ folio' = apply_fill(folio, symbol_id, currency, side, qty, price)
          /\ pf_ret' = Some(apply_fill_returns(folio, symbol_id, currency, side, qty, price))
    /\ pf_n' = pf_n + 1
    /\ UNCHANGED notPortfolio

(***************************************************************************)
(* engine/portfolio.py: a Portfolio holding one symbol, served fills and   *)
(* process_actions_for_symbol calls with one list of corporate actions.    *)
(* Fills come at one price and only where the average stays a value of at  *)
(* most ten decimals, on which floats and round(x, 10) are exact.          *)
(***************************************************************************)
ActionSymbol == 1
ActionCurrency == "EUR"
ActionPrice == 8
ActionQuantities == {1, 2}
Dates == 1..MaxDate

\* the rows drawn: no-op, split only, dividend only, split and dividend
ActionRows ==
    {CorporateAction(ActionSymbol, d, k[1], k[2], ActionCurrency) :
        d \in Dates, k \in {<<1, 0>>, <<2, 0>>, <<1, 1>>, <<2, 1>>}}

\* the lists drawn: of up to two rows
ActionLists == {<<>>} \cup {<<a>> : a \in ActionRows} \cup {<<a, b>> : a, b \in ActionRows}

ActionsInit ==
    /\ folio = NewPortfolio
    /\ pf_pre = NewPortfolio
    /\ pf_call = Nil
    /\ pf_ret = Nil
    /\ pf_n = 0
    /\ corp_actions \in ActionLists
    /\ act_log = <<>>

\* Portfolio.apply_fill on the symbol
ActionsApplyFill ==
    /\ pf_n < MaxCalls
    /\ \E side \in {"BUY", "SELL"}, qty \in ActionQuantities :
          LET after == apply_fill(folio, ActionSymbol, ActionCurrency, side, qty, ActionPrice)
              ret == apply_fill_returns(folio, ActionSymbol, ActionCurrency, side, qty,
                                        ActionPrice)
          IN  /\ TenDecimals(after.positions[1].average_price)
              /\ folio' = after
              /\ pf_call' = Some([op |-> "apply_fill", side |-> side, qty |-> qty])
              /\ pf_ret' = Some(ret)
              /\ act_log' = Append(act_log, [op |-> "apply_fill", asof |-> 0, ret |-> 0,
                                             before |-> folio, after |-> after])
    /\ pf_pre' = folio
    /\ pf_n' = pf_n + 1
    /\ UNCHANGED <<corp_actions, notActions>>

\* Portfolio.process_actions_for_symbol(symbol_id, actions, asof)
ProcessActionsForSymbol ==
    /\ pf_n < MaxCalls
    /\ \E asof \in Dates :
          LET done == process_actions_for_symbol(folio, ActionSymbol, corp_actions, asof)
          IN  /\ folio' = done[1]
              /\ pf_call' = Some([op |-> "process_actions_for_symbol", asof |-> asof])
              /\ pf_ret' = Some(done[2])
              /\ act_log' = Append(act_log, [op |-> "process_actions_for_symbol",
                                             asof |-> asof, ret |-> done[2],
                                             before |-> folio, after |-> done[1]])
    /\ pf_pre' = folio
    /\ pf_n' = pf_n + 1
    /\ UNCHANGED <<corp_actions, notActions>>

(***************************************************************************)
(* data/fx_repository.py, data/pit_reader.py, engine/portfolio.py: one FX   *)
(* lookup or one valuation against a table of rates.                        *)
(***************************************************************************)
\* the rates drawn: one per currency pair and timestamp at most
FxRows == {FxRate(ts, base_ccy, "EUR", 10 * ts + (IF base_ccy = "USD" THEN 1 ELSE 2)) :
              ts \in Times, base_ccy \in {"USD", "GBP"}}

\* the portfolios valued: cash in up to two currencies, at most one position
FxPortfolios ==
    {[NewPortfolio EXCEPT !.cash_by_ccy = cash, !.positions = positions] :
        cash \in {<<>>, [EUR |-> 5], [USD |-> 3], [EUR |-> 5, USD |-> 0]},
        positions \in {<<>>,
                       <<[NewPosition(1, "GBP") EXCEPT !.quantity = 2,
                                                      !.average_price = Whole(8)]>>}}

\* PITDataReader.get_fx
get_fx(table, base_ccy, quote_ccy, asof) ==
    get_rate_asof(table, base_ccy, quote_ccy, ensure_utc(asof))

\* Portfolio.total_value_eur as called: the value, or the LookupError of a
\* lookup that finds no rate
total_value_eur_call(pf, base, asof, mark_prices, fx) ==
    IF <<"LookupError">> \in ValuationLookups(pf, base, ensure_utc(asof), mark_prices, fx)
    THEN <<"LookupError">>
    ELSE <<"ok", total_value_eur(pf, base, ensure_utc(asof), mark_prices, fx)>>

FxInit ==
    /\ fx_table \in SUBSET FxRows
    /\ symbols_table = {}
    /\ \/ \E op \in {"get_rate_asof", "get_fx"}, base_ccy \in {"USD", "GBP"},
             quote_ccy \in {"EUR", "USD"}, asof \in PitDateTimes :
             fx_req = [op |-> op, base_ccy |-> base_ccy, quote_ccy |-> quote_ccy,
                       asof |-> asof, pf |-> NewPortfolio, mark_prices |-> <<>>]
       \/ \E pf \in FxPortfolios, asof \in PitDateTimes, marked \in BOOLEAN :
             fx_req = [op |-> "total_value_eur", base_ccy |-> "EUR", quote_ccy |-> "EUR",
                       asof |-> asof, pf |-> pf,
                       mark_prices |-> IF marked THEN <<7>> ELSE <<>>]
    /\ fx_out = <<None>>

\* get_rate_asof(engine, base_ccy, quote_ccy, asof)
GetRateAsof ==
    /\ fx_out = <<None>>
    /\ fx_req.op = "get_rate_asof"
    /\ fx_out' = get_rate_asof(fx_table, fx_req.base_ccy, fx_req.quote_ccy, utc_dt(fx_req.asof))
    /\ UNCHANGED <<fx_req, dbVars, notFx>>

\* PITDataReader.get_fx(base_ccy, quote_ccy, asof)
GetFx ==
    /\ fx_out = <<None>>
    /\ fx_req.op = "get_fx"
    /\ fx_out' = get_fx(fx_table, fx_req.base_ccy, fx_req.quote_ccy, fx_req.asof)
    /\ UNCHANGED <<fx_req, dbVars, notFx>>

\* Portfolio.total_value_eur(asof, mark_prices, fx_engine)
TotalValueEur ==
    /\ fx_out = <<None>>
    /\ fx_req.op = "total_value_eur"
    /\ fx_out' = total_value_eur_call(fx_req.pf, fx_req.base_ccy, fx_req.asof,
                                      fx_req.mark_prices, fx_table)
    /\ UNCHANGED <<fx_req, dbVars, notFx>>

(***************************************************************************)
(* Specifications: one per component, the others at rest.                  *)
(***************************************************************************)
QueueIdle == heap = <<>> /\ seq_counter = 0 /\ q_call = None /\ popped = <<>>
OrderIdle == order = None /\ o_call = None /\ o_pre = None /\ o_arg = Nil
StoreIdle == by_symbol = <<>>
PitIdle == pit_req = <<>> /\ pit_out = <<None>>
DbIdle == symbols_table = {} /\ fx_table = {}
RunIdle ==
    /\ run_args = <<>>
    /\ pc = "idle"
    /\ symbols_by_id = <<>>
    /\ times = <<>>
    /\ bars_at_time = <<>>
    /\ idx = 0
    /\ ctx_now = 0
    /\ api_orders = <<>>
    /\ api_canceled = {}
    /\ pending = <<>>
    /\ match = NoMatch
    /\ fx_used = {}
    /\ portfolio = NewPortfolio
    /\ equity_points = <<>>
    /\ orders_out = <<>>
    /\ fills_out = <<>>
    /\ positions_out = <<>>
    /\ calls = <<>>
    /\ n_submitted = 0
SimIdle == sim_in = <<>> /\ sim_out = <<None>>
TwiceIdle == wall_clock = 0 /\ run_no = 0 /\ script = <<>> /\ first_run = Nil
FoldIdle == fold_in = <<>> /\ fold_out = <<None>>
PortfolioIdle ==
    folio = NewPortfolio /\ pf_pre = NewPortfolio /\ pf_call = Nil /\ pf_ret = Nil /\ pf_n = 0
ActionsIdle == corp_actions = <<>> /\ act_log = <<>>
FxIdle == fx_req = <<>> /\ fx_out = <<None>>
WalkIdle == walk = <<>>
ClockIdle == clock_exchanges = <<>> /\ clock_call = <<>>
LedgerIdle == pnl_total = <<>>
BrokerIdle == broker = <<>> /\ broker_call = <<>>
DataIdle == data_api = <<>>
SearchIdle == search = <<>>
LastIdle == LedgerIdle /\ BrokerIdle /\ DataIdle /\ SearchIdle
LateIdle == ActionsIdle /\ FxIdle /\ WalkIdle /\ ClockIdle /\ LastIdle
MoreIdle == TwiceIdle /\ FoldIdle /\ PortfolioIdle /\ LateIdle

InitQueue == QueueInit /\ OrderIdle /\ StoreIdle /\ PitIdle /\ SimIdle /\ DbIdle /\ RunIdle /\ MoreIdle
PushAny == \E ts \in 1..MaxTs, type \in EventTypes : Push(ts, type)
NextQueue ==
    \/ PushAny
    \/ Pop
    \/ PopEmpty
    \/ Clear
SpecQueue == InitQueue /\ [][NextQueue]_vars

InitOrder == OrderInit /\ QueueIdle /\ StoreIdle /\ PitIdle /\ SimIdle /\ DbIdle /\ RunIdle /\ MoreIdle
NextOrder ==
    \/ Acknowledge
    \/ Cancel
    \/ Reject
    \/ AddFill
    \/ HandleEndOfCycle
SpecOrder == InitOrder /\ [][NextOrder]_vars

InitPit == PitInit /\ QueueIdle /\ OrderIdle /\ SimIdle /\ DbIdle /\ RunIdle /\ MoreIdle
NextPit == GetBars
SpecPit == InitPit /\ [][NextPit]_vars

InitSim == SimInit /\ QueueIdle /\ OrderIdle /\ StoreIdle /\ PitIdle /\ DbIdle /\ RunIdle /\ MoreIdle
NextSim == Simulate
SpecSim == InitSim /\ [][NextSim]_vars

\* The backtest driver: one run of run_backtest from the inputs drawn.
Init == RunInit /\ QueueIdle /\ OrderIdle /\ PitIdle /\ SimIdle /\ MoreIdle
Next ==
    \/ Setup
    \/ StrategyOrder
    \/ StrategyCancel
    \/ OnStartReturn
    \/ BeginStep
    \/ OnEventReturn
    \/ MatchSkip
    \/ MatchRaise
    \/ MatchOrder
    \/ SnapshotRaise
    \/ Snapshot
    \/ LoopEnd
    \/ OnEndReturn
Spec == Init /\ [][Next]_vars

\* Two executions of run_backtest in a row.
InitTwice ==
    /\ RunInit /\ TwiceInit /\ QueueIdle /\ OrderIdle /\ PitIdle /\ SimIdle /\ FoldIdle
    /\ PortfolioIdle /\ LateIdle
NextTwice ==
    \/ Setup
    \/ FirstRunOrder
    \/ SecondRunOrder
    \/ TwiceOnStartReturn
    \/ BeginStep
    \/ TwiceOnEventReturn
    \/ MatchSkip
    \/ MatchRaise
    \/ MatchOrder
    \/ SnapshotRaise
    \/ Snapshot
    \/ LoopEnd
    \/ TwiceOnEndReturn
    \/ SecondRun
SpecTwice == InitTwice /\ [][NextTwice]_vars

\* The fold generators.
InitFolds ==
    /\ FoldInit /\ QueueIdle /\ OrderIdle /\ PitIdle /\ SimIdle /\ DbIdle /\ RunIdle /\ TwiceIdle
    /\ PortfolioIdle /\ LateIdle
NextFolds == MakePurgedKfoldFolds \/ MakeWalkForwardFolds
SpecFolds == InitFolds /\ [][NextFolds]_vars

\* make_walk_forward_folds step by step; a call that is under way goes on
InitWalk ==
    /\ WalkInit /\ QueueIdle /\ OrderIdle /\ PitIdle /\ SimIdle /\ DbIdle /\ RunIdle /\ TwiceIdle
    /\ PortfolioIdle /\ ActionsIdle /\ FxIdle /\ ClockIdle /\ LastIdle
NextWalk == WalkEnter \/ WalkAppend \/ WalkReturn
SpecWalk == InitWalk /\ [][NextWalk]_vars /\ WF_vars(NextWalk)

\* a Clock and its EventQueue
InitClock ==
    /\ ClockInit /\ OrderIdle /\ StoreIdle /\ PitIdle /\ SimIdle /\ DbIdle /\ RunIdle
    /\ TwiceIdle /\ FoldIdle /\ PortfolioIdle /\ ActionsIdle /\ FxIdle /\ WalkIdle /\ LastIdle
NextClock == Seed \/ Advance \/ PopAdvance
SpecClock == InitClock /\ [][NextClock]_vars

\* a Portfolio on its own
InitPortfolio ==
    /\ PortfolioInit /\ QueueIdle /\ OrderIdle /\ StoreIdle /\ PitIdle /\ SimIdle /\ DbIdle
    /\ RunIdle /\ TwiceIdle /\ FoldIdle /\ LateIdle
NextPortfolio == PortfolioApplyFill
SpecPortfolio == InitPortfolio /\ [][NextPortfolio]_vars

\* a Portfolio served fills and corporate actions
InitActions ==
    /\ ActionsInit /\ QueueIdle /\ OrderIdle /\ StoreIdle /\ PitIdle /\ SimIdle /\ DbIdle
    /\ RunIdle /\ TwiceIdle /\ FoldIdle /\ FxIdle /\ WalkIdle /\ ClockIdle /\ LastIdle
NextActions == ActionsApplyFill \/ ProcessActionsForSymbol
SpecActions == InitActions /\ [][NextActions]_vars

\* one FX lookup or valuation
InitFx ==
    /\ FxInit /\ QueueIdle /\ OrderIdle /\ StoreIdle /\ PitIdle /\ SimIdle /\ RunIdle
    /\ TwiceIdle /\ FoldIdle /\ PortfolioIdle /\ ActionsIdle /\ WalkIdle /\ ClockIdle /\ LastIdle
NextFx == GetRateAsof \/ GetFx \/ TotalValueEur
SpecFx == InitFx /\ [][NextFx]_vars

(***************************************************************************)
(* The point-in-time reader's properties (SpecPit).                          *)
(***************************************************************************)
\* the instant a request's datetime denotes (a naive one is read as UTC)
Instant(dt) == IF dt.tzinfo = "UTC+1" THEN dt.wall - 1 ELSE dt.wall

\* C1: get_bars with end later than asof raises ValueError and returns no
\* data; with end at or before asof, or omitted, it does not raise that
\* error and returns no bar timestamped after asof (nor after end).
C1_NoPeek ==
    pit_out # <<None>> =>
        IF pit_req.end # NoDateTime /\ Instant(pit_req.end) > Instant(pit_req.asof)
        THEN pit_out = <<"ValueError">>
        ELSE /\ pit_out[1] = "ok"
             /\ \A i \in DOMAIN pit_out[2] : pit_out[2][i].ts <= Instant(pit_req.asof)

\* A call with end omitted on a store that holds, for the symbol, a bar
\* after asof and one at or before it: only the earlier one is returned.
C1_Witness ==
    /\ pit_out # <<None>>
    /\ pit_req.end = NoDateTime
    /\ pit_req.symbol_id \in DOMAIN by_symbol
    /\ \E i \in DOMAIN by_symbol[pit_req.symbol_id] :
           by_symbol[pit_req.symbol_id][i].ts > Instant(pit_req.asof)
    /\ pit_out[1] = "ok"
    /\ Len(pit_out[2]) = 1

\* A call with end later than asof was refused.
C1_WitnessGuard ==
    /\ pit_out # <<None>>
    /\ pit_req.end # NoDateTime
    /\ Instant(pit_req.end) > Instant(pit_req.asof)
    /\ pit_out = <<"ValueError">>

(***************************************************************************)
(* The event queue's properties (SpecQueue).                                 *)
(***************************************************************************)
\* the rank the specification fixes: CLOCK < BAR < FX < CORPORATE_ACTION
FixedRank(type) ==
    CASE type = "CLOCK" -> 0
      [] type = "BAR" -> 1
      [] type = "FX" -> 2
      [] type = "CORPORATE_ACTION" -> 3

\* C2: whatever the order of the pushes, the events returned by successive
\* pop() calls come in non-decreasing timestamp order and, at equal
\* timestamps, in the type order CLOCK < BAR < FX < CORPORATE_ACTION.
C2_PopOrder ==
    \A i \in 1..Len(popped) - 1 :
        \/ popped[i].ts < popped[i + 1].ts
        \/ /\ popped[i].ts = popped[i + 1].ts
           /\ FixedRank(popped[i].type) <= FixedRank(popped[i + 1].type)

\* Three successive pops, the first two of one timestamp and of different
\* types that were pushed in the opposite order, then a later timestamp
\* that was pushed before both.
C2_Witness ==
    /\ Len(popped) >= 3
    /\ popped[1].ts = popped[2].ts
    /\ popped[1].type # popped[2].type
    /\ popped[1].seq > popped[2].seq
    /\ popped[3].ts > popped[2].ts
    /\ popped[3].seq < popped[2].seq

\* the events queued in a heap
Queued(h) == {h[k][4] : k \in DOMAIN h}

\* C25: events pushed with the same timestamp and the same type are popped
\* in the order of their pushes, however pushes and pops alternate: a push
\* queues its event behind every event already queued, and a pop never
\* returns an event while one of its timestamp and type queued before it
\* is still waiting.
C25_FifoTieBreak ==
    [][/\ q_call' = "push" =>
            \A new \in Queued(heap') \ Queued(heap) : \A old \in Queued(heap) :
                new.seq > old.seq
       /\ (q_call' = "pop" /\ heap # <<>>) =>
            \E e \in Queued(heap) :
                /\ Queued(heap') = Queued(heap) \ {e}
                /\ popped' = Append(popped, e)
                /\ \A w \in Queued(heap') :
                      (w.ts = e.ts /\ w.type = e.type) => e.seq < w.seq]_vars

\* a pop returned an event while a later push of the same timestamp and
\* type waits, after an earlier pop and with an earlier push of another
\* kind still queued
C25_Witness ==
    /\ q_call = "pop"
    /\ Len(popped) >= 2
    /\ \E w \in Queued(heap) :
          /\ w.ts = popped[Len(popped)].ts
          /\ w.type = popped[Len(popped)].type
          /\ w.seq > popped[Len(popped)].seq
    /\ \E w \in Queued(heap) : w.seq < popped[Len(popped)].seq

(***************************************************************************)
(* The order state machine's properties (SpecOrder).                         *)
(***************************************************************************)
\* C3: a call of acknowledge, add_fill, cancel, reject or
\* handle_end_of_cycle on an order that is FILLED, CANCELED or REJECTED
\* changes neither its state nor its filled_quantity.
C3_TerminalIsFinal ==
    (o_call # None /\ o_pre.state \in Terminal) =>
        /\ order.state = o_pre.state
        /\ order.filled_quantity = o_pre.filled_quantity

\* cancel() was called on a FILLED order.
C3_Witness ==
    /\ o_call = "cancel"
    /\ o_pre.state = "FILLED"

\* C4: handle_end_of_cycle on a FOK order that is not terminal and not
\* fully filled leaves it CANCELED with filled_quantity 0.
C4_FokAtomic ==
    ( /\ o_call = "handle_end_of_cycle"
      /\ o_pre.tif = "FOK"
      /\ o_pre.state \notin Terminal
      /\ o_pre.filled_quantity < o_pre.quantity ) =>
        /\ order.state = "CANCELED"
        /\ order.filled_quantity = 0

\* A FOK order partially filled earlier in the cycle was rolled back.
C4_Witness ==
    /\ o_call = "handle_end_of_cycle"
    /\ o_pre.tif = "FOK"
    /\ o_pre.state = "PARTIALLY_FILLED"
    /\ o_pre.filled_quantity > 0
    /\ o_pre.filled_quantity < o_pre.quantity
    /\ order.state = "CANCELED"
    /\ order.filled_quantity = 0

\* C14: handle_end_of_cycle on an IOC order that is not terminal and not
\* fully filled leaves it CANCELED with filled_quantity as it was; on an IOC
\* order that is fully filled (FILLED) it changes nothing.
C14_IocKeepsFills ==
    (o_call = "handle_end_of_cycle" /\ o_pre.tif = "IOC") =>
        /\ (o_pre.state \notin Terminal /\ o_pre.filled_quantity < o_pre.quantity) =>
              /\ order.state = "CANCELED"
              /\ order.filled_quantity = o_pre.filled_quantity
        /\ o_pre.filled_quantity = o_pre.quantity =>
              /\ o_pre.state = "FILLED"
              /\ order = o_pre

\* An IOC order partially filled in the cycle was canceled with its fill kept.
C14_Witness ==
    /\ o_call = "handle_end_of_cycle"
    /\ o_pre.tif = "IOC"
    /\ o_pre.state = "PARTIALLY_FILLED"
    /\ o_pre.filled_quantity > 0
    /\ order.state = "CANCELED"
    /\ order.filled_quantity = o_pre.filled_quantity

\* C30: handle_end_of_cycle leaves a DAY order as it was, state and
\* filled_quantity included, whatever its state and fill level; an unfilled
\* or partially filled one is NEW, WORKING or PARTIALLY_FILLED afterwards.
C30_DayUntouched ==
    (o_call = "handle_end_of_cycle" /\ o_pre.tif = "DAY") =>
        /\ order = o_pre
        /\ order.state = o_pre.state
        /\ order.filled_quantity = o_pre.filled_quantity
        /\ (o_pre.state \notin Terminal /\ o_pre.filled_quantity < o_pre.quantity) =>
              order.state \in {"NEW", "WORKING", "PARTIALLY_FILLED"}

\* the end of a cycle came for a DAY order partially filled in it
C30_Witness ==
    /\ o_call = "handle_end_of_cycle"
    /\ o_pre.tif = "DAY"
    /\ o_pre.state = "PARTIALLY_FILLED"
    /\ o_pre.filled_quantity > 0
    /\ order.state = "PARTIALLY_FILLED"

\* C15: add_fill(qty), qty >= 0, on an order that is not terminal sets
\* filled_quantity to min(quantity, old filled_quantity + qty) and the state
\* to FILLED exactly when filled_quantity is then the quantity, otherwise to
\* PARTIALLY_FILLED; and at all times 0 <= filled_quantity <= quantity, and
\* a FILLED order has filled_quantity = quantity.
C15_AddFill ==
    /\ (o_call = "add_fill" /\ o_pre.state \notin Terminal) =>
          /\ order.filled_quantity = Min2(o_pre.quantity, o_pre.filled_quantity + Val(o_arg))
          /\ order.state = IF order.filled_quantity = order.quantity
                           THEN "FILLED" ELSE "PARTIALLY_FILLED"
          /\ order = [o_pre EXCEPT !.filled_quantity = order.filled_quantity,
                                    !.state = order.state]
    /\ 0 <= order.filled_quantity
    /\ order.filled_quantity <= order.quantity
    /\ order.state = "FILLED" => order.filled_quantity = order.quantity

\* A fill larger than what was left filled a partially filled order.
C15_Witness ==
    /\ o_call = "add_fill"
    /\ o_pre.state = "PARTIALLY_FILLED"
    /\ o_pre.filled_quantity + Val(o_arg) > o_pre.quantity
    /\ order.state = "FILLED"

(***************************************************************************)
(* The execution simulator's properties (SpecSim).                           *)
(***************************************************************************)
SimReturned == sim_out[1] = "ok"
SimFills == sim_out[2]

\* the cap min(available_liquidity, adv_cap_fraction x ADV[symbol]) lies
\* below the order's quantity (ADV is available_liquidity when unknown)
CapBelowQuantity ==
    LET liq == sim_in.available_liquidity
        adv == IF sim_in.cfg.adv = Nil THEN liq ELSE Val(sim_in.cfg.adv)
    IN  \/ liq < sim_in.order.quantity
        \/ sim_in.cfg.cap_num * adv < sim_in.order.quantity * sim_in.cfg.cap_den

\* C5: simulate on a FOK order produces no fill and no cost when the cap
\* min(available_liquidity, adv_cap_fraction x ADV) is below the order's
\* quantity.
C5_FokNoPartial ==
    (SimReturned /\ sim_in.order.tif = "FOK" /\ CapBelowQuantity) =>
        (SimFills = <<>> /\ sim_out[3] = 0)

\* C6: the price of every fill simulate produces lies within
\* [quote.bid, quote.ask].
C6_PriceWithinQuote ==
    SimReturned =>
        \A i \in DOMAIN SimFills :
            /\ sim_in.quote.bid <= SimFills[i].price
            /\ SimFills[i].price <= sim_in.quote.ask

\* C7: a fill of a LIMIT BUY is never priced above its limit_price and a
\* fill of a LIMIT SELL never below it.
C7_LimitRespected ==
    (SimReturned /\ sim_in.order.type = "LMT") =>
        \A i \in DOMAIN SimFills :
            /\ sim_in.order.side = "BUY" => SimFills[i].price <= Val(sim_in.order.limit_price)
            /\ sim_in.order.side = "SELL" => SimFills[i].price >= Val(sim_in.order.limit_price)

\* C16: simulate with available_liquidity = 0, or with ADV = 0 for the
\* symbol, returns no fill and no cost and does not raise, whatever the
\* order's time in force (its limit, if it is a LIMIT order, being given).
C16_DegenerateLiquidity ==
    ( /\ sim_out # <<None>>
      /\ ~(sim_in.order.type = "LMT" /\ sim_in.order.limit_price = Nil)
      /\ \/ sim_in.available_liquidity = 0
         \/ sim_in.cfg.adv = Some(0) ) =>
        /\ SimReturned
        /\ SimFills = <<>>
        /\ sim_out[3] = 0

\* C17: simulate emits at most one fill, of a positive quantity that does
\* not exceed the order's quantity, the available liquidity or
\* adv_cap_fraction x ADV (ADV being the available liquidity when the symbol
\* has none).
C17_FillCap ==
    SimReturned =>
        /\ Len(SimFills) <= 1
        /\ \A i \in DOMAIN SimFills :
              LET liq == sim_in.available_liquidity
                  adv == IF sim_in.cfg.adv = Nil THEN liq ELSE Val(sim_in.cfg.adv)
              IN  /\ SimFills[i].quantity > 0
                  /\ SimFills[i].quantity <= sim_in.order.quantity
                  /\ SimFills[i].quantity <= liq
                  /\ sim_in.cfg.cap_den * SimFills[i].quantity <= sim_in.cfg.cap_num * adv

\* C18: every fill of a BUY order is priced at or above the quote's mid,
\* (bid + ask) / 2, and every fill of a SELL order at or below it.
C18_ImpactDirection ==
    SimReturned =>
        \A i \in DOMAIN SimFills :
            /\ sim_in.order.side = "BUY" =>
                  2 * SimFills[i].price >= sim_in.quote.bid + sim_in.quote.ask
            /\ sim_in.order.side = "SELL" =>
                  2 * SimFills[i].price <= sim_in.quote.bid + sim_in.quote.ask

\* C29: simulate on a LIMIT order without a limit price raises ValueError,
\* whatever the quote and the liquidity: the call's outcome is the exception,
\* with no fill and no cost, and the order is as it was, state and
\* filled_quantity included.
C29_MissingLimitRaises ==
    [][(sim_in.order.type = "LMT" /\ sim_in.order.limit_price = Nil) =>
          /\ sim_out' = <<"ValueError">>
          /\ sim_in'.order = sim_in.order
          /\ sim_in'.order.state = sim_in.order.state
          /\ sim_in'.order.filled_quantity = sim_in.order.filled_quantity]_vars

\* the call raised for a LIMIT order without a price at a moment when
\* nothing could have been filled anyway
C29_Witness ==
    /\ sim_in.order.type = "LMT"
    /\ sim_in.order.limit_price = Nil
    /\ sim_in.available_liquidity = 0
    /\ sim_out = <<"ValueError">>

(***************************************************************************)
(* The backtest driver                                                     *)
(***************************************************************************)
\* C8: at every step with current time ts, every datum the driver uses for
\* matching and accounting is dated no later than ts: the bar the order is
\* matched against, the FX rows the valuation read, and the symbol row that
\* supplied the order's currency and venue (its active_from).
C8_NoLookAhead ==
    /\ match.bar_for_symbol # Nil => Val(match.bar_for_symbol).ts <= ctx_now
    /\ \A r \in fx_used : r.ts <= ctx_now
    /\ match.sym_meta # Nil => Val(match.sym_meta).active_from <= ctx_now

\* the total quantity of a list of fills
RECURSIVE FillsQuantity(_)
FillsQuantity(fills) ==
    IF fills = <<>> THEN 0 ELSE Head(fills).quantity + FillsQuantity(Tail(fills))

\* C9: for every order the driver has processed, the total quantity of the
\* fills applied to the Portfolio equals the order record's filled_quantity,
\* and an order with fills is not left (and logged) in state NEW.
C9_OrderAgreesWithPortfolio ==
    match.order # Nil =>
        /\ FillsQuantity(match.fills) = Val(match.order).filled_quantity
        /\ match.fills # <<>> => Val(match.order).state # "NEW"

\* the timestamps of the on_event calls so far, in call order
EventTimes ==
    LET evs == SelectSeq(calls, LAMBDA c : c[1] = "on_event")
    IN  [i \in DOMAIN evs |-> evs[i][2]]

\* the distinct bar timestamps in [start, end]
WindowTimes ==
    {t \in Times : /\ run_args.start <= t /\ t <= run_args.end
                   /\ \E sym \in DOMAIN by_symbol : \E i \in DOMAIN by_symbol[sym] :
                         by_symbol[sym][i].ts = t}

LoopOver == pc \in {"on_end", "TypeError"}

\* C10: the steps are the distinct bar timestamps in [start, end], taken in
\* strictly increasing order without a gap and each once; a step begins only
\* when the step before has matched every pending order and recorded its
\* equity point, so the equity curve has one point per completed step, in
\* step order, and every log row is stamped with a step already begun;
\* on_start is the first callback and on_end the last, called once all the
\* window's timestamps are processed.
C10_StepsInOrder ==
    /\ \A i \in DOMAIN EventTimes : \A j \in DOMAIN EventTimes :
          i < j => EventTimes[i] < EventTimes[j]
    /\ \A i \in DOMAIN EventTimes :
          /\ EventTimes[i] \in WindowTimes
          /\ \A t \in WindowTimes : t < EventTimes[i] => \E j \in 1..i : EventTimes[j] = t
    /\ pc # "idle" => calls # <<>> /\ calls[1][1] = "on_start"
    /\ \A i \in DOMAIN calls :
          /\ i > 1 => calls[i][1] # "on_start"
          /\ calls[i][1] = "on_end" => i = Len(calls) /\ LoopOver
    /\ LoopOver =>
          /\ calls[Len(calls)][1] = "on_end"
          /\ {EventTimes[i] : i \in DOMAIN EventTimes} = WindowTimes
    /\ Len(equity_points) =
          IF pc \in {"on_event", "match", "ValueError", "LookupError"}
          THEN Len(EventTimes) - 1 ELSE Len(EventTimes)
    /\ \A i \in DOMAIN equity_points : equity_points[i].ts = EventTimes[i]
    /\ pc \in {"loop", "on_event", "on_end", "TypeError"} => pending = <<>>
    /\ \A i \in DOMAIN orders_out : \E j \in DOMAIN EventTimes : orders_out[i].ts = EventTimes[j]
    /\ \A i \in DOMAIN fills_out : \E j \in DOMAIN EventTimes : fills_out[i].ts = EventTimes[j]
    /\ \A i \in DOMAIN positions_out :
          \E j \in DOMAIN equity_points : positions_out[i].ts = equity_points[j].ts

\* a run over two timestamps that matched an order and reached its end
C10_Witness ==
    /\ pc = "TypeError"
    /\ Len(EventTimes) >= 2
    /\ Len(equity_points) = Len(EventTimes)
    /\ fills_out # <<>>

(***************************************************************************)
(* Two executions of the backtest driver (SpecTwice).                      *)
(***************************************************************************)
\* s is the beginning of t
IsPrefix(s, t) == Len(s) <= Len(t) /\ \A i \in DOMAIN s : s[i] = t[i]

FoldsReturned == fold_out[1] = "ok"
Folds == fold_out[2]

\* the distinct bar timestamps of the store in [start, end]
FoldTimeline ==
    {t \in 1..MaxStamp : /\ fold_in.start <= t /\ t <= fold_in.end
                         /\ \E r \in StoreRows(by_symbol) : r.ts = t}

\* C12: in every fold either generator returns, the validation range and
\* every training range are ranges of the timeline (first <= last), and no
\* training range [t0, t1] meets the validation range [v0, v1]: t1 < v0 or
\* t0 > v1.
C12_NoOverlap ==
    FoldsReturned =>
        \A k \in DOMAIN Folds :
            LET v == Folds[k].val_range
                tr == Folds[k].train_ranges
            IN  /\ v[1] <= v[2] /\ {v[1], v[2]} \subseteq FoldTimeline
                /\ \A j \in DOMAIN tr :
                      /\ tr[j][1] <= tr[j][2] /\ {tr[j][1], tr[j][2]} \subseteq FoldTimeline
                      /\ tr[j][2] < v[1] \/ tr[j][1] > v[2]

\* a purged k-fold with training on both sides of the validation range and
\* a walk-forward run of two folds
C12_Witness ==
    /\ FoldsReturned
    /\ \/ \E k \in DOMAIN Folds : Len(Folds[k].train_ranges) = 2
       \/ fold_in.kind = "walk_forward" /\ Len(Folds) >= 2

\* the timeline steps from timestamp a to the later timestamp b
StepsBetween(a, b) == Cardinality({t \in FoldTimeline : a < t /\ t <= b})

\* every training range of every fold lies at least need / den timeline
\* steps from the validation range
GapAtLeast(need, den) ==
    \A k \in DOMAIN Folds :
        LET v == Folds[k].val_range
            tr == Folds[k].train_ranges
        IN  \A j \in DOMAIN tr :
                /\ tr[j][2] < v[1] => den * StepsBetween(tr[j][2], v[1]) >= need
                /\ tr[j][1] > v[2] => den * StepsBetween(v[2], tr[j][1]) >= need

\* C13: with an embargo fraction e > 0 over a timeline of N timestamps,
\* every training range ends, or begins, at least min(e, 1/2) x N timeline
\* steps from the validation range.
C13_EmbargoGap ==
    FoldsReturned /\ fold_in.e_num > 0 =>
        GapAtLeast(Min2(2 * fold_in.e_num, EDen) * Cardinality(FoldTimeline), 2 * EDen)

\* C13 as stated: the gap is at least e x N, whatever e > 0.
C13_EmbargoGapAsStated ==
    FoldsReturned /\ fold_in.e_num > 0 =>
        GapAtLeast(fold_in.e_num * Cardinality(FoldTimeline), EDen)

\* folds with an embargo of at least a step, on either side of a validation
\* range or before it
C13_Witness ==
    /\ FoldsReturned
    /\ fold_in.e_num > 0
    /\ fold_in.e_num * Cardinality(FoldTimeline) >= EDen
    /\ \E k \in DOMAIN Folds : Folds[k].train_ranges # <<>>

\* the timestamps of the timeline within a range
Within(range) == {t \in FoldTimeline : range[1] <= t /\ t <= range[2]}

\* C26: with n_splits >= 2 over a timeline of N >= n_splits timestamps the
\* purged k-fold returns n_splits folds whose validation ranges are blocks
\* of N div n_splits consecutive timestamps, one after the other from the
\* first timestamp on, the last block running to the last timestamp; with
\* n_splits <= 1 or N < n_splits it raises ValueError.
C26_KFoldBlocks ==
    (fold_in.kind = "purged_kfold" /\ fold_out # <<None>>) =>
        LET n == Cardinality(FoldTimeline)
            size == n \div fold_in.n_splits
        IN  IF fold_in.n_splits <= 1 \/ n < fold_in.n_splits
            THEN fold_out = <<"ValueError">>
            ELSE /\ FoldsReturned
                 /\ Len(Folds) = fold_in.n_splits
                 /\ \A k \in DOMAIN Folds :
                       /\ {Folds[k].val_range[1], Folds[k].val_range[2]} \subseteq FoldTimeline
                       /\ Cardinality(Within(Folds[k].val_range)) =
                             IF k < Len(Folds) THEN size
                             ELSE n - (fold_in.n_splits - 1) * size
                       /\ k > 1 => StepsBetween(Folds[k - 1].val_range[2],
                                                Folds[k].val_range[1]) = 1
                 /\ \A t \in FoldTimeline : Folds[1].val_range[1] <= t
                 /\ \A t \in FoldTimeline : t <= Folds[Len(Folds)].val_range[2]

\* folds over a timeline that n_splits does not divide: the last block is
\* longer than the others
C26_Witness ==
    /\ fold_in.kind = "purged_kfold"
    /\ FoldsReturned
    /\ Len(Folds) >= 2
    /\ Cardinality(FoldTimeline) % fold_in.n_splits # 0
    /\ Cardinality(Within(Folds[Len(Folds)].val_range))
          > Cardinality(Within(Folds[1].val_range))

\* the k-th timestamp of the timeline, k from 1
NthTime(k) == CHOOSE t \in FoldTimeline : Cardinality({u \in FoldTimeline : u <= t}) = k

\* the fold whose training window starts at index i of the timeline (from 0)
WindowAt(i) ==
    LET gap == EmbargoSteps(Cardinality(FoldTimeline), fold_in.e_num)
        v == i + fold_in.train_window + gap
    IN  FoldSpec(<<<<NthTime(i + 1), NthTime(i + fold_in.train_window)>>>>,
                 <<NthTime(v + 1), NthTime(v + fold_in.test_window)>>)

\* the starting indices 0, step, 2 * step, ... whose validation window ends
\* inside the timeline
WalkStarts ==
    LET n == Cardinality(FoldTimeline)
        gap == EmbargoSteps(n, fold_in.e_num)
        step == IF fold_in.step # Nil /\ Val(fold_in.step) > 0
                THEN Val(fold_in.step) ELSE fold_in.test_window
    IN  {i \in 0..n : /\ i % step = 0
                      /\ i + fold_in.train_window + gap + fold_in.test_window <= n}

\* what a call with windows >= 1 has returned: a fold for each of those
\* starting indices, in increasing order, and nothing else
WalkExact ==
    /\ FoldsReturned
    /\ Len(Folds) = Cardinality(WalkStarts)
    /\ \A k \in DOMAIN Folds :
          LET i == (k - 1) * (IF fold_in.step # Nil /\ Val(fold_in.step) > 0
                              THEN Val(fold_in.step) ELSE fold_in.test_window)
          IN  i \in WalkStarts /\ Folds[k] = WindowAt(i)

\* C27: make_walk_forward_folds with train_window >= 1 and test_window >= 1
\* comes to an end for every timeline and any step, a missing or
\* non-positive step counting as test_window, and what it returns is
\* exactly the folds starting at indices 0, step, 2 * step, ... whose
\* validation window lies inside the timeline (none when the timeline is
\* too short).
C27_WalkForwardEnds ==
    /\ <>(walk.pc \in {"returned", "raised"})
    /\ [](fold_in.train_window >= 1 /\ fold_in.test_window >= 1 => walk.pc # "raised")
    /\ [](walk.pc = "returned" => WalkExact)

\* a call with step 0 and a validation window of two timesteps that has
\* returned two folds or more
C27_Witness ==
    /\ walk.pc = "returned"
    /\ fold_in.step = Some(0)
    /\ fold_in.test_window = 2
    /\ Len(Folds) >= 2

\* the call that is run step by step returns what the function computes
WalkAgrees ==
    walk.pc \in {"returned", "raised"} =>
        fold_out = make_walk_forward_folds(by_symbol, fold_in.start, fold_in.end,
                                           fold_in.train_window, fold_in.test_window,
                                           fold_in.step, fold_in.e_num)

(***************************************************************************)
(* The Clock's properties (SpecClock).                                     *)
(***************************************************************************)
\* the events of a heap in the order in which pop() would return them
RECURSIVE PopAll(_)
PopAll(h) == IF h = <<>> THEN <<>> ELSE <<HeapPop(h)[1][4]>> \o PopAll(HeapPop(h)[2])

\* the events the last Clock call found queued are all still queued and
\* would be popped in the order they would have been popped in before
KeptInOrder ==
    LET WasQueued(e) == e \in Queued(clock_call.heap)
    IN  SelectSeq(PopAll(heap), WasQueued) = PopAll(clock_call.heap)

\* the events the last Clock call pushed, in the order it pushed them
Pushed ==
    LET new == Queued(heap) \ Queued(clock_call.heap)
        n == Cardinality(new)
    IN  [k \in 1..n |-> CHOOSE e \in new : e.seq = seq_counter - n + k - 1]

\* The sessions in UTC slots: XNYS trades 13:30-20:00 UTC on weekdays
\* other than the holiday, XETR 07:00-15:30 UTC on weekdays, to 12:00 on
\* the half-day.
SessionDays == -1..13
Trades(ex, day) == day % 7 < 5 /\ ~(ex = "XNYS" /\ day = 3)
OpensAt(ex, day) == day * 48 + (IF ex = "XNYS" THEN 27 ELSE 14)
ClosesAt(ex, day) == day * 48 + (IF ex = "XNYS" THEN 40 ELSE IF day = 1 THEN 24 ELSE 31)
OpenAt(ex, t) ==
    \E day \in SessionDays : Trades(ex, day) /\ OpensAt(ex, day) <= t /\ t < ClosesAt(ex, day)
FirstAfter(S, t) == CHOOSE x \in S : x > t /\ \A y \in S : y > t => x <= y
NextCloseAfter(ex, t) ==
    FirstAfter({ClosesAt(ex, day) : day \in {d \in SessionDays : Trades(ex, d)}}, t)
NextOpenAfter(ex, t) ==
    FirstAfter({OpensAt(ex, day) : day \in {d \in SessionDays : Trades(ex, d)}}, t)

\* the event is the boundary event of exchange ex for a call at instant t
BoundaryEvent(e, ex, t) ==
    /\ e.type = "CLOCK"
    /\ e.payload.exchange = ex
    /\ IF OpenAt(ex, t)
       THEN e.ts = NextCloseAfter(ex, t) /\ e.payload.label = ex \o ":close"
       ELSE e.ts = NextOpenAfter(ex, t) /\ e.payload.label = ex \o ":open"

Supported == {"XNYS", "XETR"}
Tracked == {clock_exchanges[k] : k \in DOMAIN clock_exchanges}
Entries(codes, ex) == Cardinality({k \in DOMAIN codes : codes[k] = ex})

\* seed has pushed one CLOCK event labelled "start" at start and left the
\* rest of the queue as it was
SeedPushesStart ==
    clock_call.op = "seed" =>
        /\ Len(Pushed) = 1
        /\ Pushed[1].type = "CLOCK"
        /\ Pushed[1].payload.label = "start"
        /\ Pushed[1].ts = (IF clock_call.arg.tzinfo = "UTC+1"
                           THEN clock_call.arg.wall - 2 ELSE clock_call.arg.wall)
        /\ KeptInOrder

\* advance has pushed one boundary event for each entry of the tracked
\* list, the exchanges in sorted order, and left the rest of the queue as
\* it was
AdvancePushesAll ==
    LET t == IF clock_call.arg.tzinfo = "UTC+1"
             THEN clock_call.arg.wall - 2 ELSE clock_call.arg.wall
    IN  /\ clock_call.raised = None
        /\ Len(Pushed) = Len(clock_exchanges)
        /\ \A ex \in Tracked :
              Entries([k \in DOMAIN Pushed |-> Pushed[k].payload.exchange], ex)
                = Entries(clock_exchanges, ex)
        /\ \A k \in DOMAIN Pushed :
              /\ BoundaryEvent(Pushed[k], Pushed[k].payload.exchange, t)
              /\ k > 1 => CodeRank(Pushed[k - 1].payload.exchange)
                            <= CodeRank(Pushed[k].payload.exchange)
        /\ KeptInOrder

\* advance has raised ValueError at the first exchange, in sorted order,
\* that the calendar does not know, having pushed the boundary events of
\* the entries sorted before it and left the rest of the queue as it was
AdvanceRaises ==
    LET t == IF clock_call.arg.tzinfo = "UTC+1"
             THEN clock_call.arg.wall - 2 ELSE clock_call.arg.wall
        before == {k \in DOMAIN clock_exchanges :
                     \A u \in Tracked \ Supported :
                         CodeRank(clock_exchanges[k]) < CodeRank(u)}
    IN  /\ clock_call.raised = "ValueError"
        /\ Len(Pushed) = Cardinality(before)
        /\ \A ex \in Tracked :
              Entries([k \in DOMAIN Pushed |-> Pushed[k].payload.exchange], ex)
                = Cardinality({k \in before : clock_exchanges[k] = ex})
        /\ \A k \in DOMAIN Pushed :
              /\ BoundaryEvent(Pushed[k], Pushed[k].payload.exchange, t)
              /\ k > 1 => CodeRank(Pushed[k - 1].payload.exchange)
                            <= CodeRank(Pushed[k].payload.exchange)
        /\ KeptInOrder

\* C28 as stated: seed pushes one "start" CLOCK event at start; advance
\* pushes one CLOCK event per tracked exchange, in sorted order, at the
\* exchange's next close if it is open at now and at its next open
\* otherwise; neither removes or reorders what was queued.
C28_ClockSchedulesAsStated ==
    /\ SeedPushesStart
    /\ clock_call.op = "advance" => AdvancePushesAll

\* C28, for the exchanges the calendar knows: the same, advance on a Clock
\* all of whose tracked exchanges are XNYS or XETR; with a tracked exchange
\* the calendar does not know, advance raises ValueError after the events
\* of the exchanges sorted before it.
C28_ClockSchedules ==
    /\ SeedPushesStart
    /\ (clock_call.op = "advance" /\ Tracked \subseteq Supported) => AdvancePushesAll
    /\ (clock_call.op = "advance" /\ ~(Tracked \subseteq Supported)) => AdvanceRaises

\* the test's Clock advanced, with an event queued before, at a moment when
\* XETR is open and XNYS is closed for its holiday
C28_Witness ==
    /\ clock_exchanges = <<"XNYS", "XETR">>
    /\ clock_call.op = "advance"
    /\ clock_call.heap # <<>>
    /\ Len(Pushed) = 2
    /\ Pushed[1].payload.label = "XETR:close"
    /\ Pushed[2].payload.label = "XNYS:open"
    /\ Pushed[2].ts >= Pushed[1].ts + SlotsPerDay \div 2

\* C40: every boundary event advance(q, now) has enqueued lies strictly
\* after now, whether the exchange was open or closed, in the weekend, on
\* the holiday or on the half-day, and also when now is the time of the
\* event a loop has just popped.
C40_ClockProgress ==
    clock_call.op = "advance" =>
        \A k \in DOMAIN Pushed : Pushed[k].ts > ClockInstant(clock_call.arg)

\* the loop popped the close of an exchange and advanced at that very
\* instant: the exchange's next open was scheduled, later
C40_Witness ==
    /\ clock_call.op = "advance"
    /\ clock_call.at_event # Nil
    /\ Val(clock_call.at_event).payload.label = "XETR:close"
    /\ \E k \in DOMAIN Pushed :
          /\ Pushed[k].payload.label = "XETR:open"
          /\ Pushed[k].ts > Val(clock_call.at_event).ts

(***************************************************************************)
(* The portfolio's properties (SpecPortfolio).                             *)
(***************************************************************************)
PortfolioCalled == pf_call # Nil

\* the position of a symbol in a portfolio, a fresh one if it has none
PositionOf(pf, symbol_id, currency) ==
    IF PosIndex(pf.positions, symbol_id) # 0
    THEN pf.positions[PosIndex(pf.positions, symbol_id)]
    ELSE NewPosition(symbol_id, currency)

\* the last call's qty_delta, and the position it met and the one it left
LastDelta == IF Val(pf_call).side = "BUY" THEN Val(pf_call).qty ELSE -Val(pf_call).qty
LastBefore == PositionOf(pf_pre, Val(pf_call).symbol_id, Val(pf_call).currency)
LastAfter == PositionOf(folio, Val(pf_call).symbol_id, Val(pf_call).currency)

Sign(x) == IF x > 0 THEN 1 ELSE IF x < 0 THEN -1 ELSE 0

\* C19: a fill that opens a position or extends it in its direction
\* realizes no P&L and sets the average to (avg x old_qty + price x delta)
\* / new_qty; a fill that reduces or flips realizes (price - avg) x
\* min(|delta|, |old_qty|) x sign(old_qty); the average is 0 when the
\* resulting quantity is 0, unchanged by a pure reduction, and the fill
\* price after a flip through zero.
C19_CostBasis ==
    (PortfolioCalled /\ LastDelta # 0) =>
        LET old == LastBefore.quantity
            avg == LastBefore.average_price
            price == Val(pf_call).price
            new_qty == old + LastDelta
        IN  /\ LastAfter.quantity = new_qty
            /\ IF old = 0 \/ Sign(old) = Sign(LastDelta)
               THEN /\ Val(pf_ret) = Whole(0)
                    /\ LastAfter.average_price =
                          Frac(avg.num * old + price * LastDelta * avg.den, avg.den * new_qty)
               ELSE /\ Val(pf_ret) =
                          Frac((price * avg.den - avg.num)
                                   * Min2(Abs(LastDelta), Abs(old)) * Sign(old), avg.den)
                    /\ (new_qty = 0 => LastAfter.average_price = Whole(0))
                    /\ (Sign(new_qty) = Sign(old) => LastAfter.average_price = avg)
                    /\ (Sign(new_qty) = -Sign(old) /\ new_qty # 0
                           => LastAfter.average_price = Whole(price))

\* C20: apply_fill moves the cash of the fill's currency by the notional,
\* down on BUY and up on SELL, whatever P&L it returns; the cash of every
\* other currency and the position of every other symbol stay as they were.
C20_CashByNotional ==
    PortfolioCalled =>
        LET a == Val(pf_call)
        IN  /\ get_cash(folio, a.currency) =
                   get_cash(pf_pre, a.currency)
                   + (IF a.side = "BUY" THEN -(a.qty * a.price) ELSE a.qty * a.price)
            /\ \A c \in FillCurrencies \ {a.currency} :
                   /\ get_cash(folio, c) = get_cash(pf_pre, c)
                   /\ c \in DOMAIN folio.cash_by_ccy <=> c \in DOMAIN pf_pre.cash_by_ccy
            /\ \A sid \in FillSymbols \ {a.symbol_id} :
                   /\ PosIndex(folio.positions, sid) # 0 <=> PosIndex(pf_pre.positions, sid) # 0
                   /\ PositionOf(folio, sid, a.currency) = PositionOf(pf_pre, sid, a.currency)

\* a fill that realizes a P&L, while another symbol is held and another
\* currency has cash
C20_Witness ==
    /\ PortfolioCalled
    /\ Val(pf_ret) # Whole(0)
    /\ \E c \in FillCurrencies \ {Val(pf_call).currency} : get_cash(pf_pre, c) # 0
    /\ \E sid \in FillSymbols \ {Val(pf_call).symbol_id} :
          PositionOf(pf_pre, sid, Val(pf_call).currency).quantity # 0
    /\ C20_CashByNotional

(***************************************************************************)
(* The corporate actions' properties (SpecActions).                        *)
(***************************************************************************)
ProcessCalls == {i \in DOMAIN act_log : act_log[i].op = "process_actions_for_symbol"}

\* the symbol's position in a portfolio and the dates processed for it
Held(pf) == PositionOf(pf, ActionSymbol, ActionCurrency)
ProcessedDates(pf) ==
    IF ActionSymbol \in DOMAIN pf.processed_actions
    THEN {pf.processed_actions[ActionSymbol][k] : k \in DOMAIN pf.processed_actions[ActionSymbol]}
    ELSE {}

\* the rows of the list that call i has to apply: effective by its asof and
\* not processed before it
Due(i) ==
    SelectSeq(corp_actions, LAMBDA a :
        /\ a.effective_date <= act_log[i].asof
        /\ a.effective_date \notin ProcessedDates(act_log[i].before))

\* call i met an open position and applied an action to it
Applied(i) == Held(act_log[i].before).quantity # 0 /\ Due(i) # <<>>

\* call i credited no cash and left quantity and average price alone
NoEffect(i) ==
    /\ act_log[i].ret = 0
    /\ act_log[i].after.cash_by_ccy = act_log[i].before.cash_by_ccy
    /\ Held(act_log[i].after) = Held(act_log[i].before)

RECURSIVE SplitProduct(_)
SplitProduct(rows) ==
    IF rows = <<>> THEN 1 ELSE Head(rows).split_ratio * SplitProduct(Tail(rows))
RECURSIVE DividendSum(_)
DividendSum(rows) ==
    IF rows = <<>> THEN 0 ELSE Head(rows).dividend + DividendSum(Tail(rows))

\* call i applied every row of rows, each once: the splits adjust the
\* position and the dividends are credited on the adjusted shares
AppliedAll(i, rows) ==
    LET pos == Held(act_log[i].before)
        shares == pos.quantity * SplitProduct(rows)
    IN  /\ Held(act_log[i].after).quantity = shares
        /\ Held(act_log[i].after).average_price = FracOver(pos.average_price, SplitProduct(rows))
        /\ act_log[i].ret = shares * DividendSum(rows)
        /\ get_cash(act_log[i].after, ActionCurrency) =
              get_cash(act_log[i].before, ActionCurrency) + shares * DividendSum(rows)

\* C22: a call on an open position applies every row of the list that is
\* effective by asof and not yet processed for the symbol, each exactly
\* once, also when two different rows share an effective date.
C22_AppliesEveryDueAction ==
    \A i \in ProcessCalls :
        (/\ Held(act_log[i].before).quantity # 0
         /\ \A k, l \in DOMAIN corp_actions : k # l => corp_actions[k] # corp_actions[l])
        => AppliedAll(i, Due(i))

\* the rows of the list effective by an asof
EffectiveBy(asof) == SelectSeq(corp_actions, LAMBDA a : a.effective_date <= asof)

\* a call reads nothing of the rows that are effective after its asof:
\* its outcome is the one the list without them gives, and it marks none
\* of their dates
NoLookAheadInActions ==
    \A i \in ProcessCalls :
        /\ <<act_log[i].after, act_log[i].ret>> =
              process_actions_for_symbol(act_log[i].before, ActionSymbol,
                                         EffectiveBy(act_log[i].asof), act_log[i].asof)
        /\ \A d \in ProcessedDates(act_log[i].after) \ ProcessedDates(act_log[i].before) :
              d <= act_log[i].asof

\* C23: a call applies no row that is effective after its asof and does not
\* mark it processed, so that a later call on the open position whose asof
\* has reached the row's effective date applies it.
C23_AppliedOnceDue ==
    /\ NoLookAheadInActions
    /\ \A i, j \in ProcessCalls :
          (/\ i < j
           /\ Held(act_log[j].before).quantity # 0
           /\ \E k \in DOMAIN corp_actions :
                 /\ corp_actions[k].effective_date > act_log[i].asof
                 /\ corp_actions[k].effective_date <= act_log[j].asof
                 /\ corp_actions[k].effective_date \notin ProcessedDates(act_log[j].before)
           /\ \A k, l \in DOMAIN corp_actions : k # l => corp_actions[k] # corp_actions[l])
          => AppliedAll(j, Due(j))

(***************************************************************************)
(* The FX lookups' properties (SpecFx).                                    *)
(***************************************************************************)
FxAnswered == fx_out # <<None>>

\* the stored rates of a pair dated at or before the instant of asof
RatesBy(base_ccy, quote_ccy, asof) ==
    {r \in fx_table : r.base_ccy = base_ccy /\ r.quote_ccy = quote_ccy /\ r.ts <= Instant(asof)}

\* the currencies a valuation has to convert: those of its cash entries and
\* of its marked open positions, the base currency apart
Converted(pf, base, mark_prices) ==
    ({c \in DOMAIN pf.cash_by_ccy : TRUE}
     \cup {pf.positions[k].currency : k \in {l \in DOMAIN pf.positions :
               pf.positions[l].quantity # 0 /\ pf.positions[l].symbol_id \in DOMAIN mark_prices}})
    \ {base}

\* C24: a lookup returns the requested pair's stored rate with the greatest
\* timestamp at or before asof, never a later one; with no such rate it
\* raises LookupError, and so does a valuation that needs that rate.
C24_FxAsOf ==
    FxAnswered =>
        IF fx_req.op = "total_value_eur"
        THEN (\E c \in Converted(fx_req.pf, fx_req.base_ccy, fx_req.mark_prices) :
                 RatesBy(c, fx_req.base_ccy, fx_req.asof) = {})
             <=> fx_out = <<"LookupError">>
        ELSE LET rates == RatesBy(fx_req.base_ccy, fx_req.quote_ccy, fx_req.asof)
             IN  IF rates = {} THEN fx_out = <<"LookupError">>
                 ELSE /\ fx_out[1] = "ok"
                      /\ fx_out[2] \in rates
                      /\ \A r \in rates : r.ts <= fx_out[2].ts

\* a valuation raised LookupError for a currency whose only rates are
\* dated after asof
C24_Witness ==
    /\ FxAnswered
    /\ fx_req.op = "total_value_eur"
    /\ fx_out = <<"LookupError">>
    /\ \E c \in Converted(fx_req.pf, fx_req.base_ccy, fx_req.mark_prices) :
          /\ RatesBy(c, fx_req.base_ccy, fx_req.asof) = {}
          /\ \E r \in fx_table : r.base_ccy = c /\ r.quote_ccy = fx_req.base_ccy

(***************************************************************************)
(* The order log and ctx.cancel                                            *)
(***************************************************************************)
\* C35: once a step of the loop is over, every order the strategy submitted
\* in on_start or in an on_event up to it has one row in the order log.
C35_EveryOrderLogged ==
    (pc = "loop" /\ idx >= 1) => Len(orders_out) = n_submitted

\* C36: the first order of a run, with an id no other pending order has,
\* that the strategy canceled after submitting it, gets no fill and leaves
\* the positions and the cash as they were.
C36_CanceledNotFilled ==
    [][(/\ pc = "match"
        /\ match = NoMatch
        /\ pending # <<>>
        /\ Head(pending).id \in api_canceled
        /\ \A i \in 2..Len(pending) : pending[i].id # Head(pending).id)
       => (portfolio' = portfolio /\ fills_out' = fills_out)]_vars

(***************************************************************************)
(* Corporate actions and the shares held at the effective date             *)
(***************************************************************************)
\* the portfolio holds no share of the symbol
FlatIn(pf) ==
    LET at == PosIndex(pf.positions, ActionSymbol)
    IN  at = 0 \/ pf.positions[at].quantity = 0

\* call k of the log is a process_actions_for_symbol call whose asof has
\* reached the effective date of the row a
Covering(k, a) ==
    /\ act_log[k].op = "process_actions_for_symbol"
    /\ act_log[k].asof >= a.effective_date

\* at call n of the log the position is one opened after the effective date
\* of the row a: a call at an asof past that date, and not after that of
\* call n, found the portfolio flat, and so did every earlier covering call
OpenedAfter(a, n) ==
    /\ \E k \in 1..(n - 1) :
          /\ Covering(k, a)
          /\ act_log[k].asof > a.effective_date
          /\ act_log[k].asof <= act_log[n].asof
    /\ \A k \in 1..(n - 1) : Covering(k, a) => FlatIn(act_log[k].before)

\* C38: a process_actions_for_symbol call on a position opened after the
\* effective date of every row of the list changes neither the positions
\* nor the cash, and returns no dividend.
C38_OnlySharesHeldAtDate ==
    LET n == Len(act_log)
    IN  (/\ n > 0
         /\ act_log[n].op = "process_actions_for_symbol"
         /\ ~FlatIn(act_log[n].before)
         /\ corp_actions # <<>>
         /\ \A i \in DOMAIN corp_actions : OpenedAfter(corp_actions[i], n))
        => /\ act_log[n].after.positions = act_log[n].before.positions
           /\ act_log[n].after.cash_by_ccy = act_log[n].before.cash_by_ccy
           /\ act_log[n].ret = 0

(***************************************************************************)
(* engine/portfolio.py: a Portfolio trading one symbol in one currency,    *)
(* and a caller that adds up the realized P&L apply_fill returns.          *)
(***************************************************************************)
\* Portfolio(), and nothing realized yet
LedgerInit == PortfolioInit /\ pnl_total = Whole(0)

\* Portfolio.apply_fill on the symbol; the caller adds the value returned
\* to its total
LedgerApplyFill ==
    /\ pf_n < MaxFills
    /\ \E side \in {"BUY", "SELL"}, qty \in FillQuantities, price \in FillPrices :
          LET ret == apply_fill_returns(folio, 1, "EUR", side, qty, price)
          IN  /\ pf_pre' = folio
              /\ pf_call' = Some([symbol_id |-> 1, currency |-> "EUR",
                                  side |-> side, qty |-> qty, price |-> price])
              /\ folio' = apply_fill(folio, 1, "EUR", side, qty, price)
              /\ pf_ret' = Some(ret)
              /\ pnl_total' = FracAdd(pnl_total, ret)
    /\ pf_n' = pf_n + 1
    /\ UNCHANGED notLedger

InitLedger ==
    /\ LedgerInit /\ QueueIdle /\ OrderIdle /\ StoreIdle /\ PitIdle /\ SimIdle /\ DbIdle
    /\ RunIdle /\ TwiceIdle /\ FoldIdle /\ ActionsIdle /\ FxIdle /\ WalkIdle /\ ClockIdle
    /\ BrokerIdle /\ DataIdle /\ SearchIdle
NextLedger == LedgerApplyFill
SpecLedger == InitLedger /\ [][NextLedger]_vars

\* C39: whenever the position is flat again after some fills, the realized
\* P&L returned so far adds up to the cash of the currency (which started
\* at 0), and the average price is 0.
C39_LedgerIdentity ==
    (pf_n > 0 /\ folio.positions[1].quantity = 0)
        => /\ pnl_total = Whole(get_cash(folio, "EUR"))
           /\ folio.positions[1].average_price = Whole(0)

\* the half of it that holds: a flat position has average price 0
LedgerFlatAverage ==
    (pf_n > 0 /\ folio.positions[1].quantity = 0)
        => folio.positions[1].average_price = Whole(0)

(***************************************************************************)
(* sdk/strategy.py: the data API of the strategy context, over a symbols   *)
(* table in which a ticker can pass from one symbol to another.            *)
(***************************************************************************)
Tickers == {"AAA", "BBB"}

\* the symbols rows drawn: AAA is symbol 1 up to the last time and symbol 2
\* from then on, or symbol 1 throughout; symbol 2 is BBB before it is AAA
DataSymbolRows ==
    {SymbolRow(1, "AAA", "XNYS", "USD", 1, Some(MaxTime)),
     SymbolRow(1, "AAA", "XNYS", "USD", 1, Nil),
     SymbolRow(2, "AAA", "XNYS", "USD", MaxTime, Nil),
     SymbolRow(2, "BBB", "XNYS", "USD", 1, Some(MaxTime))}

\* the bars of the store: one per symbol and time, the close telling which
DataRows ==
    [i \in 1..(MaxSymbol * MaxTime) |->
        BarRow(((i - 1) % MaxTime) + 1, ((i - 1) \div MaxTime) + 1, BarClose + i, 20)]

DataFields == {<<"close", "ts">>, <<"close", "vwap">>}
DataDateTimes == {DateTime(wall, tzinfo) : wall \in Times, tzinfo \in {None, "UTC"}}

\* {row.ticker: row for row in rows}, rows in symbol_id order: of two rows
\* with one ticker the later one stays
TickerMap(rows) ==
    [t \in {r.ticker : r \in rows} |->
        CHOOSE r \in rows : r.ticker = t /\ \A r2 \in rows : r2.ticker = t => r2.symbol_id <= r.symbol_id]

\* A plausible slip: the cache is rebuilt on every call.
ensure_symbol_cache_fresh(cache, table, asof) == TickerMap(get_symbols_asof(table, ensure_utc(asof)))

\* _DataAPI._ensure_symbol_cache: the cache afterwards
ensure_symbol_cache(cache, table, asof) ==
    IF DOMAIN cache # {} THEN cache
    ELSE TickerMap(get_symbols_asof(table, ensure_utc(asof)))

\* the columns data.get returns: out[f] for each field, up to the first
\* field that is not supported
RECURSIVE Columns(_, _, _)
Columns(fields, bars, out) ==
    IF fields = <<>> THEN <<"ok", out>>
    ELSE IF Head(fields) \notin {"open", "high", "low", "close", "volume", "ts"}
    THEN <<"KeyError", "field">>
    ELSE Columns(Tail(fields), bars,
                 Append(out, <<Head(fields),
                               [i \in DOMAIN bars |->
                                   IF Head(fields) = "ts" THEN bars[i].ts
                                   ELSE IF Head(fields) = "volume" THEN bars[i].volume
                                   ELSE bars[i].close]>>))

\* bars[-lookback:] for lookback > 0
LastBars(bars, lookback) ==
    IF lookback > 0 /\ Len(bars) > lookback
    THEN SubSeq(bars, Len(bars) - lookback + 1, Len(bars))
    ELSE bars

\* _DataAPI.get from the cache as _ensure_symbol_cache left it; ticker is
\* Nil when the symbol is given by its id: [symbol_id, out]
data_get(cache, store, ticker, symbol_id, fields, lookback, at) ==
    IF ticker # Nil /\ Val(ticker) \notin DOMAIN cache
    THEN [symbol_id |-> Nil, out |-> <<"KeyError", "ticker">>]
    ELSE LET sid == IF ticker # Nil THEN cache[Val(ticker)].symbol_id ELSE Val(symbol_id)
             bars == get_bars(store, sid, NoDateTime, at, at)
         IN  [symbol_id |-> Some(sid),
              out |-> IF bars[1] # "ok" THEN bars
                      ELSE Columns(fields, LastBars(bars[2], lookback), <<>>)]

\* _DataAPI(reader) over a table and a store
DataInit ==
    /\ symbols_table \in SUBSET DataSymbolRows
    /\ fx_table = {}
    /\ by_symbol = from_rows(DataRows)
    /\ data_api = [cache |-> <<>>, call |-> Nil]

\* ctx.data.get(symbol, fields, lookback) without at: ValueError
DataGetNoAt ==
    /\ \E ticker \in Tickers, fields \in DataFields, lookback \in {0, 1} :
          data_api' = [data_api EXCEPT !.call =
              Some([ticker |-> Some(ticker), fields |-> fields, lookback |-> lookback,
                    at |-> NoDateTime, cache |-> data_api.cache, symbol_id |-> Nil,
                    out |-> <<"ValueError">>])]
    /\ UNCHANGED <<by_symbol, symbols_table, fx_table, notData>>

\* ctx.data.get(symbol, fields, lookback, at=at), the symbol a ticker or an id
DataGet ==
    /\ \E ticker \in {Nil} \cup {Some(t) : t \in Tickers}, symbol_id \in Symbols,
          fields \in DataFields, lookback \in {0, 1}, at \in DataDateTimes :
          LET at_utc == DateTime(ensure_utc(at), "UTC")
              cache == ensure_symbol_cache(data_api.cache, symbols_table, at_utc)
              got == data_get(cache, by_symbol, ticker, Some(symbol_id), fields, lookback, at_utc)
          IN  /\ ticker # Nil => symbol_id = 1
              /\ data_api' = [cache |-> cache,
                              call |-> Some([ticker |-> ticker, fields |-> fields,
                                             lookback |-> lookback, at |-> at,
                                             cache |-> data_api.cache,
                                             symbol_id |-> got.symbol_id, out |-> got.out])]
    /\ UNCHANGED <<by_symbol, symbols_table, fx_table, notData>>

InitData ==
    /\ DataInit /\ QueueIdle /\ OrderIdle /\ PitIdle /\ SimIdle /\ RunIdle /\ TwiceIdle
    /\ FoldIdle /\ PortfolioIdle /\ ActionsIdle /\ FxIdle /\ WalkIdle /\ ClockIdle
    /\ LedgerIdle /\ BrokerIdle /\ SearchIdle
NextData == DataGetNoAt \/ DataGet
SpecData == InitData /\ [][NextData]_vars

\* the symbols active at the time of the last call that carry its ticker
ActiveAt ==
    {r \in get_symbols_asof(symbols_table, ensure_utc(Val(data_api.call).at)) :
        r.ticker = Val(Val(data_api.call).ticker)}

\* C37: a get() for a ticker at T uses a symbol that carries the ticker and
\* is active at T, and raises KeyError when no active symbol carries it.
C37_TickerAsOfT ==
    (/\ data_api.call # Nil
     /\ Val(data_api.call).ticker # Nil
     /\ Val(data_api.call).at # NoDateTime)
        => IF ActiveAt = {} THEN Val(data_api.call).out = <<"KeyError", "ticker">>
           ELSE /\ Val(data_api.call).symbol_id # Nil
                /\ \E r \in ActiveAt : r.symbol_id = Val(Val(data_api.call).symbol_id)

\* the same of calls that found the cache empty
FirstCallAsOfT ==
    (/\ data_api.call # Nil
     /\ Val(data_api.call).ticker # Nil
     /\ Val(data_api.call).at # NoDateTime
     /\ DOMAIN Val(data_api.call).cache = {})
        => IF ActiveAt = {} THEN Val(data_api.call).out = <<"KeyError", "ticker">>
           ELSE /\ Val(data_api.call).symbol_id # Nil
                /\ \E r \in ActiveAt : r.symbol_id = Val(Val(data_api.call).symbol_id)

(***************************************************************************)
(* adapters/exec/paper_broker.py: a PaperBroker served submit, cancel and  *)
(* status calls.  _orders and _updates are functions from order ids; the   *)
(* simulator is called without ts.                                         *)
(***************************************************************************)
TICK == 1000000000      \* _tick_size_for_venue: 0.01, in price units

\* _enforce_tick: round(round(price / tick) * tick, 10), not below 0.0
enforce_tick(price, tick) ==
    IF tick <= 0 THEN price
    ELSE Max2(0, RoundHalfEven(price, tick) * tick)

OrderUpdate(order_id, state, filled_quantity, avg_fill_price, cost) ==
    [order_id |-> order_id, state |-> state, filled_quantity |-> filled_quantity,
     avg_fill_price |-> avg_fill_price, cost |-> cost]

\* PaperBroker._clone_remaining
clone_remaining(o) ==
    [o EXCEPT !.quantity = Max2(0, o.quantity - o.filled_quantity), !.filled_quantity = 0]

\* for f in fills: order.add_fill(f.quantity)
RECURSIVE AddFills(_, _)
AddFills(o, fills) ==
    IF fills = <<>> THEN o ELSE AddFills(add_fill(o, Head(fills).quantity), Tail(fills))

RECURSIVE FillsNotional(_)
FillsNotional(fills) ==
    IF fills = <<>> THEN 0
    ELSE Head(fills).quantity * Head(fills).price + FillsNotional(Tail(fills))

\* dict[key] = value
Store(dict, key, value) == [k \in DOMAIN dict \cup {key} |-> IF k = key THEN value ELSE dict[k]]

FinalStates == {"CANCELED", "FILLED", "REJECTED"}

\* A plausible slip: an order in a final state is not turned away.
IsFinal_never(b, order_id) == FALSE

\* existing is not None and existing.state is final
IsFinal(b, order_id) == order_id \in DOMAIN b.orders /\ b.orders[order_id].state \in FinalStates

\* PaperBroker.submit: the broker afterwards, and either the update
\* returned or the exception raised
broker_submit(b, o, venue, quote, available_liquidity) ==
    IF IsFinal(b, o.id) THEN [broker |-> b, out |-> <<"ExecutionError">>]
    ELSE
    LET ticked == IF o.type = "LMT" /\ o.limit_price # Nil
                  THEN [o EXCEPT !.limit_price = Some(enforce_tick(Val(o.limit_price), TICK))]
                  ELSE o
        stored == IF o.id \notin DOMAIN b.orders THEN acknowledge(ticked)
                  ELSE [b.orders[o.id] EXCEPT !.type = ticked.type,
                                              !.limit_price = ticked.limit_price,
                                              !.quantity = ticked.quantity]
        b1 == [b EXCEPT !.orders = Store(b.orders, o.id, stored)]
        sim == simulate(b.cfg, clone_remaining(stored), quote, venue, available_liquidity, Nil)
    IN  IF sim[1] # "ok" THEN [broker |-> b1, out |-> sim]
        ELSE
        LET fills == sim[2]
            filled_qty == FillsQuantity(fills)
            avg_price == IF filled_qty > 0
                         THEN Some(Grid * RoundHalfEven(FillsNotional(fills), Grid * filled_qty))
                         ELSE Nil
            ended == handle_end_of_cycle(IF filled_qty > 0 THEN AddFills(stored, fills)
                                         ELSE stored, available_liquidity)
            update == OrderUpdate(ended.id, ended.state, ended.filled_quantity, avg_price,
                                  sim[3])
        IN  [broker |-> [b EXCEPT !.orders = Store(b.orders, o.id, ended),
                                  !.updates = Store(b.updates, o.id, update)],
             out |-> <<"ok", update>>]

\* PaperBroker.cancel
broker_cancel(b, order_id) ==
    IF order_id \notin DOMAIN b.orders THEN [broker |-> b, out |-> <<"ExecutionError">>]
    ELSE LET o == cancel(b.orders[order_id])
             update == OrderUpdate(o.id, o.state, o.filled_quantity, Nil, 0)
         IN  [broker |-> [b EXCEPT !.orders = Store(b.orders, order_id, o),
                                   !.updates = Store(b.updates, order_id, update)],
              out |-> <<"ok", update>>]

\* PaperBroker.status
broker_status(b, order_id) ==
    IF order_id \in DOMAIN b.updates THEN <<"ok", b.updates[order_id]>>
    ELSE IF order_id \notin DOMAIN b.orders THEN <<"ExecutionError">>
    ELSE LET o == b.orders[order_id]
         IN  <<"ok", OrderUpdate(o.id, o.state, o.filled_quantity, Nil, 0)>>

\* the orders handed to submit: fresh Order objects with the id "a"
BrokerOrders ==
    {NewOrder("a", 1, "BUY", quantity, tl[1], tif, tl[2]) :
        quantity \in 1..MaxQty, tif \in TimeInForce,
        tl \in {<<"MKT", Nil>>, <<"LMT", Nil>>, <<"LMT", Some(PriceBase + PriceStride)>>}}
BrokerIds == {"a", "b"}
BrokerQuote == Quote(PriceBase, PriceBase + PriceStride)

\* PaperBroker() with its defaults, or with adv_cap_fraction=1.0
BrokerInit ==
    /\ \E cap \in {<<ADV_CAP_NUM, ADV_CAP_DEN>>, <<1, 1>>} :
          broker = [orders |-> <<>>, updates |-> <<>>,
                    cfg |-> [adv |-> Nil, cap_num |-> cap[1], cap_den |-> cap[2],
                             sigma |-> 0, costs |-> None]]
    /\ broker_call = [op |-> "init", arg |-> Nil, pre |-> <<>>, out |-> <<None>>]

\* broker.submit(order, venue="US", quote=..., available_liquidity=...)
BrokerSubmit ==
    /\ \E o \in BrokerOrders, available_liquidity \in 0..MaxLiq :
          LET done == broker_submit(broker, o, "US", BrokerQuote, available_liquidity)
          IN  /\ broker' = done.broker
              /\ broker_call' = [op |-> "submit", arg |-> Some(o), pre |-> broker,
                                 out |-> done.out]
    /\ UNCHANGED notBroker

\* broker.cancel(order_id)
BrokerCancel ==
    /\ \E order_id \in BrokerIds :
          LET done == broker_cancel(broker, order_id)
          IN  /\ broker' = done.broker
              /\ broker_call' = [op |-> "cancel", arg |-> Some(order_id), pre |-> broker,
                                 out |-> done.out]
    /\ UNCHANGED notBroker

\* broker.status(order_id)
BrokerStatus ==
    /\ \E order_id \in BrokerIds :
          broker_call' = [op |-> "status", arg |-> Some(order_id), pre |-> broker,
                          out |-> broker_status(broker, order_id)]
    /\ UNCHANGED <<broker, notBroker>>

InitBroker ==
    /\ BrokerInit /\ QueueIdle /\ OrderIdle /\ StoreIdle /\ PitIdle /\ SimIdle /\ DbIdle
    /\ RunIdle /\ TwiceIdle /\ FoldIdle /\ PortfolioIdle /\ ActionsIdle /\ FxIdle /\ WalkIdle
    /\ ClockIdle /\ LedgerIdle /\ DataIdle /\ SearchIdle
NextBroker == BrokerSubmit \/ BrokerCancel \/ BrokerStatus
SpecBroker == InitBroker /\ [][NextBroker]_vars

\* C32: every order the broker tracks has 0 <= filled_quantity <= quantity.
C32_FillWithinQuantity ==
    \A id \in DOMAIN broker.orders :
        /\ 0 <= broker.orders[id].filled_quantity
        /\ broker.orders[id].filled_quantity <= broker.orders[id].quantity


\* the order id the last call was about
CallId == IF broker_call.op = "submit" THEN Val(broker_call.arg).id ELSE Val(broker_call.arg)

\* the order stored under that id before the call, and after it
Before == broker_call.pre.orders[CallId]
After == broker.orders[CallId]
Known == CallId \in DOMAIN broker_call.pre.orders

\* C33: a submit for an id whose stored order is final raises
\* ExecutionError and changes nothing; a cancel of a FILLED order leaves it
\* FILLED; cancel and status of an id never submitted raise ExecutionError;
\* a cancel of an order that is not final makes it CANCELED and keeps its
\* filled quantity.
C33_FinalAndUnknown ==
    /\ (broker_call.op = "submit" /\ Known /\ Before.state \in FinalStates)
          => broker_call.out = <<"ExecutionError">> /\ broker = broker_call.pre
    /\ (broker_call.op = "cancel" /\ Known /\ Before.state = "FILLED")
          => After = Before /\ broker_call.out[1] = "ok" /\ broker_call.out[2].state = "FILLED"
    /\ (broker_call.op \in {"cancel", "status"} /\ ~Known)
          => broker_call.out = <<"ExecutionError">> /\ broker = broker_call.pre
    /\ (broker_call.op = "cancel" /\ Known /\ Before.state \notin FinalStates)
          => /\ After = [Before EXCEPT !.state = "CANCELED"]
             /\ broker_call.out =
                    <<"ok", OrderUpdate(CallId, "CANCELED", Before.filled_quantity, Nil, 0)>>

\* a submit for the id of a FILLED order, with another quantity, was turned
\* away
C33_Witness ==
    /\ broker_call.op = "submit"
    /\ Known
    /\ Before.state = "FILLED"
    /\ Val(broker_call.arg).quantity # Before.quantity
    /\ broker_call.out = <<"ExecutionError">>

\* the part of the closure that holds: a submit that returns for a new IOC
\* or FOK order leaves it FILLED or CANCELED, a FOK order never in part
ClosedOnReturn ==
    (/\ broker_call.op = "submit"
     /\ ~Known
     /\ Val(broker_call.arg).tif \in {"IOC", "FOK"}
     /\ broker_call.out[1] = "ok")
        => /\ After.state \in {"FILLED", "CANCELED"}
           /\ broker_call.out[2].state = After.state
           /\ After.tif = "FOK" => After.filled_quantity \in {0, After.quantity}

\* C34: a submit that returns for a new IOC or FOK order leaves it FILLED
\* or CANCELED, a FOK order never filled in part; and only DAY orders are
\* WORKING or PARTIALLY_FILLED between calls.
C34_TifClosure ==
    /\ ClosedOnReturn
    /\ \A id \in DOMAIN broker.orders :
          broker.orders[id].state \in {"WORKING", "PARTIALLY_FILLED"}
              => broker.orders[id].tif = "DAY"

(***************************************************************************)
(* research/search.py, research/validation.py: run_hyperparameter_search   *)
(* and its trials.  A trial is a worker running _evaluate_trial: it makes  *)
(* its trial directory, the directory of its first fold, and run_backtest  *)
(* writes the fold's files one after the other; run_backtest then raises   *)
(* TypeError (see OnEndReturn), which ends the trial and, once the parent  *)
(* sees it, the search.  The digest of the parameters is carried as the    *)
(* text it is computed from.                                               *)
(***************************************************************************)
MaxTrials == 3      \* values in a grid list; n_trials

\* json.dumps(params, sort_keys=True, separators=(",", ":")) of the
\* parameters a and w
json_dumps(params) == "{\"a\":" \o ToString(params.a) \o ",\"w\":" \o ToString(params.w) \o "}"

\* _param_hash and _hash_params: sha256(payload).hexdigest()[:8]
param_hash(params) == json_dumps(params)

\* what a trial creates and writes, in order: out_dir / trial_<id>,
\* trial_dir / fold_01_<id> and the files of ArtifactWriter
TrialPaths(params) ==
    LET trial_dir == "trial_" \o param_hash(params)
        fold_dir == trial_dir \o "/fold_01_" \o param_hash(params)
    IN  <<trial_dir, fold_dir, fold_dir \o "/equity.csv", fold_dir \o "/orders.csv",
          fold_dir \o "/fills.csv", fold_dir \o "/positions.csv", fold_dir \o "/metrics.json">>

\* _iter_grid: the product of the lists, the keys in sorted order (a, w)
iter_grid(param_grid) ==
    LET na == Len(param_grid.a)
        nw == Len(param_grid.w)
    IN  [k \in 1..(na * nw) |->
            [a |-> param_grid.a[((k - 1) \div nw) + 1], w |-> param_grid.w[((k - 1) % nw) + 1]]]

\* _sample_random in int mode: the lists of n_trials parameter sets that
\* rng.randint can produce, over the seeds
sample_random(random_spec, n_trials) ==
    [1..n_trials -> [a : random_spec.a.min..random_spec.a.max,
                     w : random_spec.w.min..random_spec.w.max]]

\* the lists of values a grid gives for w
GridLists == UNION {[1..n -> 1..2] : n \in 1..MaxTrials}

\* run_hyperparameter_search(mode=..., param_grid=... or random_spec=...,
\* n_trials=..., parallel_workers=...) is called
SearchInit ==
    \E mode \in {"grid", "random"}, parallel_workers \in 1..2 :
        \/ /\ mode = "grid"
           /\ \E ws \in GridLists :
                 search = [pc |-> "called", mode |-> mode, parallel_workers |-> parallel_workers,
                           param_grid |-> Some([a |-> <<1>>, w |-> ws]), random_spec |-> Nil,
                           n_trials |-> Nil, tasks |-> <<>>, workers |-> 0, at |-> <<>>,
                           raised |-> {}, written |-> {}]
        \/ /\ mode = "random"
           /\ \E hi \in 1..2, n_trials \in 1..MaxTrials :
                 search = [pc |-> "called", mode |-> mode, parallel_workers |-> parallel_workers,
                           param_grid |-> Nil,
                           random_spec |-> Some([a |-> [min |-> 1, max |-> 1],
                                                 w |-> [min |-> 1, max |-> hi]]),
                           n_trials |-> Some(n_trials), tasks |-> <<>>, workers |-> 0,
                           at |-> <<>>, raised |-> {}, written |-> {}]

\* lines 117-133: the tasks are listed and the number of workers is set
SearchTasks ==
    /\ search.pc = "called"
    /\ \E tasks \in IF search.mode = "grid" THEN {iter_grid(Val(search.param_grid))}
                    ELSE sample_random(Val(search.random_spec), Val(search.n_trials)) :
          search' = [search EXCEPT !.pc = "running",
                                   !.tasks = tasks,
                                   !.workers = Max2(1, Min2(Len(tasks), search.parallel_workers)),
                                   !.at = [i \in DOMAIN tasks |-> 0]]
    /\ UNCHANGED notSearch

\* the trials a worker is running
Active == {i \in DOMAIN search.at : search.at[i] >= 1 /\ i \notin search.raised}

\* a free worker takes the next task: _evaluate_trial starts and
\* run_walk_forward makes the trial directory
TrialStart ==
    /\ search.pc = "running"
    /\ Cardinality(Active) < search.workers
    /\ search.workers = 1 => search.raised = {}
    /\ \E i \in DOMAIN search.at :
          /\ search.at[i] = 0
          /\ \A j \in 1..(i - 1) : search.at[j] # 0
          /\ search' = [search EXCEPT !.at[i] = 1,
                           !.written = @ \cup {<<i, TrialPaths(search.tasks[i])[1]>>}]
    /\ UNCHANGED notSearch

\* a running trial makes its fold directory or writes its next file
TrialWrite ==
    /\ search.pc = "running"
    /\ \E i \in Active :
          /\ search.at[i] < Len(TrialPaths(search.tasks[i]))
          /\ search' = [search EXCEPT !.at[i] = @ + 1,
                           !.written = @ \cup {<<i, TrialPaths(search.tasks[i])[search.at[i] + 1]>>}]
    /\ UNCHANGED notSearch

\* the trial's run_backtest raises TypeError after its files are written
TrialRaise ==
    /\ search.pc = "running"
    /\ \E i \in Active :
          /\ search.at[i] = Len(TrialPaths(search.tasks[i]))
          /\ search' = [search EXCEPT !.raised = @ \cup {i}]
    /\ UNCHANGED notSearch

\* the parent receives a trial's exception: the pool is terminated and
\* run_hyperparameter_search raises
SearchRaise ==
    /\ search.pc = "running"
    /\ search.raised # {}
    /\ search' = [search EXCEPT !.pc = "TypeError"]
    /\ UNCHANGED notSearch

InitSearch ==
    /\ SearchInit /\ QueueIdle /\ OrderIdle /\ StoreIdle /\ PitIdle /\ SimIdle /\ DbIdle
    /\ RunIdle /\ TwiceIdle /\ FoldIdle /\ PortfolioIdle /\ ActionsIdle /\ FxIdle /\ WalkIdle
    /\ ClockIdle /\ LedgerIdle /\ BrokerIdle /\ DataIdle
NextSearch == SearchTasks \/ TrialStart \/ TrialWrite \/ TrialRaise \/ SearchRaise
SpecSearch == InitSearch /\ [][NextSearch]_vars

\* C31: no directory or file is created or written by two trials.
C31_TrialsWriteApart ==
    \A e1 \in search.written, e2 \in search.written : e1[2] = e2[2] => e1[1] = e2[1]

\* the same of trials whose parameters differ
DistinctTrialsWriteApart ==
    \A e1 \in search.written, e2 \in search.written :
        e1[2] = e2[2] => search.tasks[e1[1]] = search.tasks[e2[1]]

=============================================================================
